---- MODULE Spec2Model ----
(***************************************************************************)
(* Model of the request pipeline of the Purify browser extension:          *)
(*   - the request context storage (lib/filter/request-context-storage.js) *)
(*   - the safebrowsing lookup service (purify.safebrowsing)               *)
(* Each component is explored by its own specification; a component's      *)
(* specification leaves the other component's variables unchanged.         *)
(***************************************************************************)
EXTENDS Integers, Sequences, FiniteSets, TLC

VARIABLES
  contexts,        \* request-context-storage.js: const contexts = new Map()
  nextEventId,     \* request-context-storage.js: let nextEventId = 0
  emitted,         \* collaborator calls made by the last storage operation
  lastOp,          \* the last storage operation and its arguments
  issuedEventIds,  \* history: every value getNextEventId has returned
  calls,           \* history: lifecycle calls made on a context since record
  netFlushes,      \* history: runs of the requestState branch of remove
  contentFlushes,  \* history: runs of the contentModifyingState branch
  sbCache,         \* safebrowsing: safebrowsingCache.cache ("sb-lru-cache")
  requestsCache,   \* safebrowsing: safebrowsingRequestsCache
  suspendedFrom,   \* safebrowsing: localStorage["safebrowsing-suspended-from"]
  now,             \* Date.now()
  pending,         \* backend requests whose response has not arrived yet
  sbLast,          \* the last safebrowsing step: callbacks made, queries sent
  suspendedBy,     \* history: what set suspendedFrom ("response" or "error")
  serverErrorAt,   \* history: when the last response with status >= 500 arrived
  lastBody,        \* the responseText of the response the last step handled
  hostIn,          \* extractHosts: the host it was last called with
  hostsOut,        \* extractHosts: what it returned
  headerHeap,      \* the header objects of the browser's webRequest details
  callerHeaders,   \* the header array of the browser's webRequest details
  bound,           \* history: what was bound to a request since its id was opened
  flushed,         \* history: what remove has logged for it since then
  stLast,          \* stealth service: the last call, what it read and returned
  settings,        \* purify.settings: the stored value of each property
  permission,      \* whether the optional "privacy" permission is held
  privacy,         \* browser.privacy.network: the WebRTC settings
  tasks,           \* promise continuations of the privacy handlers not yet run
  wrLast,          \* the last step of the privacy handlers
  verdicts         \* history: hosts the backend has listed and nobody has trusted since

ledgerVars == <<contexts, nextEventId, emitted, lastOp, issuedEventIds>>
historyVars == <<calls, netFlushes, contentFlushes>>
sbVars == <<sbCache, requestsCache, suspendedFrom, now, pending, sbLast, suspendedBy>>
hostVars == <<hostIn, hostsOut>>
callerVars == <<headerHeap, callerHeaders>>
auditVars == <<bound, flushed>>
stealthVars == <<stLast>>
webrtcVars == <<settings, permission, privacy, tasks, wrLast>>
verdictVars == <<verdicts>>
vars == <<ledgerVars, historyVars, sbVars, serverErrorAt, lastBody, hostVars, callerVars,
          auditVars, stealthVars, webrtcVars, verdictVars>>

----------------------------------------------------------------------------
(* Bounds of the exploration *)

MaxEventId == 3
MaxCalls == 3
MaxRules == 1

RequestIds == {"id1", "id2"}
Urls == {"urlA", "urlB"}
Tabs == {1}
DOCUMENT == "DOCUMENT"
IMAGE == "IMAGE"
CSP == "CSP"
RecordTypes == {DOCUMENT, IMAGE}
Rules == {"r1", "r2"}

----------------------------------------------------------------------------
(* request-context-storage.js *)

NONE == 1
PROCESSING == 2
DONE == 3

\* a JavaScript value that may be undefined: <<>> or <<value>>
Undefined == <<>>
Some(v) == <<v>>
NoRule == "null"
NoContext == [present |-> FALSE]
\* context.elements: Map from content rule to its serialized elements; a rule
\* without entry reads as the empty list (elements.get(rule) || [])
NoElements == [r \in Rules |-> <<>>]

Has(id) == contexts[id].present

\* One call on a collaborator (filteringLog or webRequestService). rules is the
\* rule argument: <<>> for null, <<r>> for one rule object, and the array itself
\* with isArray set when an array is passed where a rule goes.
Call(op, tab, url, type, rules, isArray, eventId, element) ==
  [op |-> op, tab |-> tab, url |-> url, type |-> type, rules |-> rules,
   isArray |-> isArray, eventId |-> eventId, element |-> element]

\* mutant: the new rules take the place of the old ones
appendRules_Overwrite(original, toAppend) ==
  IF toAppend # Undefined THEN toAppend ELSE original

appendRules(original, toAppend) ==
  IF toAppend # Undefined
    THEN Some((IF original = Undefined THEN <<>> ELSE original[1]) \o toAppend[1])
    ELSE original

\* mutant: the counter is read without being advanced
getNextEventId_Stuck == nextEventId

getNextEventId == nextEventId + 1

\* mutant: a redirect keeps the content-modification state of the context it replaces
NewContext_KeepsContentState(requestId, requestUrl, referrerUrl, originUrl, requestType, tab, eventId) ==
  [present |-> TRUE,
   requestId |-> requestId,
   requestUrl |-> requestUrl,
   referrerUrl |-> referrerUrl,
   originUrl |-> originUrl,
   requestType |-> requestType,
   tab |-> tab,
   eventId |-> eventId,
   requestState |-> PROCESSING,
   contentModifyingState |->
     IF Has(requestId) THEN contexts[requestId].contentModifyingState ELSE NONE,
   requestRule |-> NoRule,
   replaceRules |-> Undefined,
   cspRules |-> Undefined,
   contentRules |-> Undefined,
   elements |-> NoElements,
   stealthActions |-> 0,
   requestHeaders |-> Undefined,
   responseHeaders |-> Undefined,
   modifiedRequestHeaders |-> Undefined,
   modifiedResponseHeaders |-> Undefined]

NewContext(requestId, requestUrl, referrerUrl, originUrl, requestType, tab, eventId) ==
  [present |-> TRUE,
   requestId |-> requestId,
   requestUrl |-> requestUrl,
   referrerUrl |-> referrerUrl,
   originUrl |-> originUrl,
   requestType |-> requestType,
   tab |-> tab,
   eventId |-> eventId,
   requestState |-> PROCESSING,
   contentModifyingState |-> NONE,
   requestRule |-> NoRule,
   replaceRules |-> Undefined,
   cspRules |-> Undefined,
   contentRules |-> Undefined,
   elements |-> NoElements,
   stealthActions |-> 0,
   requestHeaders |-> Undefined,
   responseHeaders |-> Undefined,
   modifiedRequestHeaders |-> Undefined,
   modifiedResponseHeaders |-> Undefined]

\* mutant: the log is cleared on a redirect of a document request too
RecordClears_TypeOnly(requestId, requestType) == requestType = DOCUMENT

\* mutant: the log is cleared for a new request of any type
RecordClears_AnyType(requestId, requestType) == ~Has(requestId)

RecordClears(requestId, requestType) ==
  requestType = DOCUMENT /\ ~Has(requestId)

record(requestId, requestUrl, referrerUrl, originUrl, requestType, tab) ==
  LET eventId == getNextEventId IN
  /\ nextEventId' = eventId
  /\ issuedEventIds' = issuedEventIds \cup {eventId}
  /\ contexts' = [contexts EXCEPT ![requestId] =
        NewContext(requestId, requestUrl, referrerUrl, originUrl, requestType, tab, eventId)]
  /\ emitted' =
        (IF RecordClears(requestId, requestType)
           THEN <<Call("clearEventsByTabId", tab, "", "", <<>>, FALSE, 0, "")>>
           ELSE <<>>)
        \o <<Call("addHttpRequestEvent", tab, requestUrl, requestType, <<>>, FALSE, eventId, "")>>

In(field, upd) == field \in DOMAIN upd

\* header objects ({name, value}) of the browser's webRequest details. An object
\* the browser owns is known by its reference and read through headerHeap; an
\* object literal is a value of its own.
HeaderRefs == {"h1", "h2"}
HeaderValues == {"v1", "v2"}
HeaderName(ref) == IF ref = "h1" THEN "Referer" ELSE "DNT"
Header(name, value) == [name |-> name, value |-> value]
\* the browser's object as update's argument sees it
Owned(ref) == [ref |-> ref, name |-> headerHeap[ref].name, value |-> headerHeap[ref].value]
\* reading a stored header: an object the browser owns reads as it is now
Deref(heap, h) == IF "ref" \in DOMAIN h THEN heap[h.ref] ELSE h
HeaderFields ==
  {"requestHeaders", "responseHeaders", "modifiedRequestHeaders", "modifiedResponseHeaders"}
\* context[field] as a reader of the context finds it
ReadHeaders(c, heap, field) ==
  IF c[field] = Undefined THEN Undefined
  ELSE Some([i \in 1..Len(c[field][1]) |-> Deref(heap, c[field][1][i])])

\* mutant: a new array that holds the caller's own header objects
copyHeaders_SameObjects(headers) == headers

copyHeaders(headers) ==
  [i \in 1..Len(headers) |-> [name |-> headers[i].name, value |-> headers[i].value]]

\* the context after update(requestId, upd), for a context that exists
updateContext(c, upd) ==
  [c EXCEPT
    !.requestState = IF In("requestState", upd) THEN upd.requestState ELSE @,
    !.contentModifyingState =
        IF In("contentModifyingState", upd) THEN upd.contentModifyingState ELSE @,
    !.requestRule = IF In("requestRule", upd) THEN upd.requestRule ELSE @,
    !.replaceRules = IF In("replaceRules", upd) THEN Some(upd.replaceRules) ELSE @,
    !.cspRules = IF In("cspRules", upd) THEN appendRules(@, Some(upd.cspRules)) ELSE @,
    !.stealthActions = IF In("stealthActions", upd) THEN upd.stealthActions ELSE @,
    !.requestHeaders =
        IF In("requestHeaders", upd) THEN Some(copyHeaders(upd.requestHeaders)) ELSE @,
    !.responseHeaders =
        IF In("responseHeaders", upd) THEN Some(copyHeaders(upd.responseHeaders)) ELSE @,
    !.modifiedRequestHeaders =
        IF In("modifiedRequestHeaders", upd)
          THEN Some(copyHeaders(upd.modifiedRequestHeaders)) ELSE @,
    !.modifiedResponseHeaders =
        IF In("modifiedResponseHeaders", upd)
          THEN Some(copyHeaders(upd.modifiedResponseHeaders)) ELSE @]

\* the filtering-log call update makes when it is given a request rule
updateCalls(c, upd) ==
  IF In("requestRule", upd)
    THEN <<Call("bindRuleToHttpRequestEvent", c.tab, "", "",
                IF upd.requestRule = NoRule THEN <<>> ELSE <<upd.requestRule>>,
                FALSE, c.eventId, "")>>
    ELSE <<>>

\* mutant: the update is applied to every context of the table
update_EveryContext(requestId, upd) ==
  /\ contexts' = IF Has(requestId)
        THEN [id \in RequestIds |->
               IF Has(id) THEN updateContext(contexts[id], upd) ELSE contexts[id]]
        ELSE contexts
  /\ emitted' = IF Has(requestId) THEN updateCalls(contexts[requestId], upd) ELSE <<>>
  /\ UNCHANGED <<nextEventId, issuedEventIds>>

update(requestId, upd) ==
  /\ contexts' = IF Has(requestId)
        THEN [contexts EXCEPT ![requestId] = updateContext(@, upd)]
        ELSE contexts
  /\ emitted' = IF Has(requestId) THEN updateCalls(contexts[requestId], upd) ELSE <<>>
  /\ UNCHANGED <<nextEventId, issuedEventIds>>

\* mutant: a missing context is created instead of the call being dropped
bindContentRule_Upsert(requestId, rule, elementHtml) ==
  /\ contexts' = [contexts EXCEPT ![requestId] =
        [(IF @.present THEN @
          ELSE NewContext(requestId, "urlA", "ref", "ref", IMAGE, 1, 0)) EXCEPT
           !.contentRules = appendRules(@, Some(<<rule>>)),
           !.elements = [@ EXCEPT ![rule] = Append(@, elementHtml)]]]
  /\ emitted' = <<>>
  /\ UNCHANGED <<nextEventId, issuedEventIds>>

bindContentRule(requestId, rule, elementHtml) ==
  /\ contexts' = IF Has(requestId)
        THEN [contexts EXCEPT ![requestId] =
               [@ EXCEPT !.contentRules = appendRules(@, Some(<<rule>>)),
                         !.elements = [@ EXCEPT ![rule] = Append(@, elementHtml)]]]
        ELSE contexts
  /\ emitted' = <<>>
  /\ UNCHANGED <<nextEventId, issuedEventIds>>

\* one entry of ruleHitsRecords: a rule object, or an array pushed as one entry
Hit(rules, isArray) == [rules |-> rules, isArray |-> isArray]

RECURSIVE EachRule(_)
EachRule(rules) ==
  IF rules = <<>> THEN <<>> ELSE <<Hit(<<Head(rules)>>, FALSE)>> \o EachRule(Tail(rules))

RECURSIVE CspEvents(_, _)
CspEvents(c, cspRules) ==
  IF cspRules = <<>> THEN <<>>
  ELSE <<Call("addHttpRequestEvent", c.tab, c.requestUrl, CSP, <<Head(cspRules)>>,
              FALSE, 0, "")>>
       \o CspEvents(c, Tail(cspRules))

RECURSIVE ElementEvents(_, _, _)
ElementEvents(c, contentRule, elements) ==
  IF elements = <<>> THEN <<>>
  ELSE <<Call("addCosmeticEvent", c.tab, c.requestUrl, c.requestType, <<contentRule>>,
              FALSE, 0, Head(elements))>>
       \o ElementEvents(c, contentRule, Tail(elements))

\* mutant: a rule's entry is left in place after its elements were emitted
RECURSIVE CosmeticEvents_KeepsEntry(_, _, _)
CosmeticEvents_KeepsEntry(c, contentRules, elements) ==
  IF contentRules = <<>> THEN <<>>
  ELSE ElementEvents(c, Head(contentRules), elements[Head(contentRules)])
       \o CosmeticEvents_KeepsEntry(c, Tail(contentRules), elements)

\* the loop over contentRules: a rule's elements are emitted and its entry deleted
RECURSIVE CosmeticEvents(_, _, _)
CosmeticEvents(c, contentRules, elements) ==
  IF contentRules = <<>> THEN <<>>
  ELSE ElementEvents(c, Head(contentRules), elements[Head(contentRules)])
       \o CosmeticEvents(c, Tail(contentRules),
                         [elements EXCEPT ![Head(contentRules)] = <<>>])

\* mutant: the network branch of remove runs whatever the state
NetFlushDue_Always(c) == TRUE

NetFlushDue(c) == c.requestState = DONE
ContentFlushDue(c) == c.contentModifyingState = DONE

\* remove, lines 296-332: filtering-log calls of the requestState branch
NetCalls(c) ==
  IF NetFlushDue(c)
    THEN (IF c.requestRule # NoRule
            THEN <<Call("bindRuleToHttpRequestEvent", c.tab, "", "", <<c.requestRule>>,
                        FALSE, c.eventId, "")>>
            ELSE <<>>)
         \o (IF c.cspRules # Undefined THEN CspEvents(c, c.cspRules[1]) ELSE <<>>)
         \o (IF c.stealthActions # 0
               THEN <<Call("bindStealthActionsToHttpRequestEvent", c.tab, "", "", <<>>,
                           FALSE, c.eventId, ToString(c.stealthActions))>>
               ELSE <<>>)
    ELSE <<>>

NetHits(c) ==
  IF NetFlushDue(c)
    THEN (IF c.requestRule # NoRule THEN <<Hit(<<c.requestRule>>, FALSE)>> ELSE <<>>)
         \o (IF c.cspRules # Undefined THEN EachRule(c.cspRules[1]) ELSE <<>>)
    ELSE <<>>

\* remove, lines 334-365: filtering-log calls of the contentModifyingState branch
ContentCalls(c) ==
  IF ContentFlushDue(c)
    THEN (IF c.replaceRules # Undefined
            THEN <<Call("bindReplaceRulesToHttpRequestEvent", c.tab, "", "",
                        c.replaceRules[1], TRUE, c.eventId, "")>>
            ELSE <<>>)
         \o (IF c.contentRules # Undefined
               THEN CosmeticEvents(c, c.contentRules[1], c.elements)
               ELSE <<>>)
    ELSE <<>>

ContentHits(c) ==
  IF ContentFlushDue(c)
    THEN (IF c.replaceRules # Undefined THEN <<Hit(c.replaceRules[1], TRUE)>> ELSE <<>>)
         \o (IF c.contentRules # Undefined THEN EachRule(c.contentRules[1]) ELSE <<>>)
    ELSE <<>>

RECURSIVE RuleHitCalls(_, _)
RuleHitCalls(c, ruleHitsRecords) ==
  IF ruleHitsRecords = <<>> THEN <<>>
  ELSE <<Call("recordRuleHit", c.tab, c.requestUrl, "", Head(ruleHitsRecords).rules,
              Head(ruleHitsRecords).isArray, 0, "")>>
       \o RuleHitCalls(c, Tail(ruleHitsRecords))

\* every collaborator call of remove(requestId), in the order the code makes them
removeCalls(c) ==
  NetCalls(c) \o ContentCalls(c) \o RuleHitCalls(c, NetHits(c) \o ContentHits(c))

\* mutant: remove flushes but leaves the states as update set them
Flushed_StatesKept(c) == c

\* the context as remove leaves it, before the final check
Flushed(c) ==
  [c EXCEPT
    !.requestState = IF NetFlushDue(c) THEN NONE ELSE @,
    !.contentModifyingState = IF ContentFlushDue(c) THEN NONE ELSE @,
    !.elements = IF ContentFlushDue(c) /\ c.contentRules # Undefined
                   THEN [r \in Rules |->
                          IF \E i \in 1..Len(c.contentRules[1]) : c.contentRules[1][i] = r
                            THEN <<>> ELSE @[r]]
                   ELSE @]

\* mutant: the context is deleted as soon as either axis reads NONE
AllFinished_Either(c) == c.requestState = NONE \/ c.contentModifyingState = NONE

\* remove, lines 375-381
AllFinished(c) == c.requestState = NONE /\ c.contentModifyingState = NONE

removeContext(c) == IF AllFinished(Flushed(c)) THEN NoContext ELSE Flushed(c)

\* update(requestId, upd) followed by remove(requestId): the body shared by
\* onRequestCompleted and onContentModificationFinished
updateThenRemove(requestId, upd) ==
  /\ contexts' = IF Has(requestId)
        THEN [contexts EXCEPT ![requestId] = removeContext(updateContext(@, upd))]
        ELSE contexts
  /\ emitted' = IF Has(requestId)
        THEN updateCalls(contexts[requestId], upd)
             \o removeCalls(updateContext(contexts[requestId], upd))
        ELSE <<>>
  /\ UNCHANGED <<nextEventId, issuedEventIds>>

onRequestCompleted(requestId) ==
  updateThenRemove(requestId, [requestState |-> DONE])

onContentModificationStarted(requestId) ==
  update(requestId, [contentModifyingState |-> PROCESSING])

onContentModificationFinished(requestId) ==
  updateThenRemove(requestId, [contentModifyingState |-> DONE])

----------------------------------------------------------------------------
(* purify.safebrowsing *)

SUSPEND_TTL == 40 * 60 * 1000
SB_WHITE_LIST == "whitelist"
DOMAIN_HASH_LENGTH == 4

\* the clock advances in steps of 20 minutes, from T0
TickMs == 20 * 60 * 1000
T0 == TickMs
MaxTicks == 2
MaxLabels == 4
MaxCspRules == 2

\* hosts are lists of labels: a.evil.com is <<"a", "evil", "com">>
EvilCom == <<"evil", "com">>
AEvilCom == <<"a", "evil", "com">>
GoodOrg == <<"good", "org">>
NoHost == <<>>
LookupHosts == {EvilCom, AEvilCom, GoodOrg}
\* the parties that look URLs up, each with its own callback
Callers == {"cb1", "cb2"}

\* request URLs: only the host matters; a URL may have none (about:blank)
Url(host) == [host |-> host]
LookupUrls == {Url(h) : h \in LookupHosts \cup {NoHost}}
getHost(url) == url.host

\* SHA256.hash(host + "/").toUpperCase(): a hex string, here its first
\* DOMAIN_HASH_LENGTH characters and a name for the remaining ones. Different
\* hosts have different hashes.
Sha256Upper(text) ==
  CASE text = EvilCom  -> [head |-> "A1B2", tail |-> "evil.com/"]
    [] text = AEvilCom -> [head |-> "C3D4", tail |-> "a.evil.com/"]
    [] text = GoodOrg  -> [head |-> "E5F6", tail |-> "good.org/"]

createHash(host) == Sha256Upper(host)
FullHashes == {createHash(h) : h \in LookupHosts}
\* hash.substring(0, length)
Substring0(hash, length) == IF length = DOMAIN_HASH_LENGTH THEN hash.head ELSE ""

\* purify.utils.LruCache: a value per key, "" when the key has no entry
NoEntry == ""
getValue(cache, key) == cache[key]
saveValue(cache, key, value) == [cache EXCEPT ![key] = value]

\* mutant: the list name is passed on as it is
createResponse_Untranslated(sbList) == sbList

createResponse(sbList) == IF sbList = SB_WHITE_LIST THEN "null" ELSE sbList

\* purify.utils.url.isIpv4 / isIpv6 on a list of labels
Digits == {"1", "2", "3", "4"}
isIpv4(host) == Len(host) = 4 /\ \A i \in 1..4 : host[i] \in Digits
\* an IPv6 literal has no dot, or ends in a dotted IPv4 part (::ffff:1.2.3.4)
isIpv6(host) ==
  \/ Len(host) = 1 /\ host[1] \in {"::1"}
  \/ Len(host) = 4 /\ host[1] = "::ffff:1" /\ \A i \in 2..4 : host[i] \in Digits

\* purify.utils.strings.join(parts, ".", i, parts.length), i counted from 0
JoinFrom(parts, i) == SubSeq(parts, i + 1, Len(parts))

\* mutant: the loop runs one step further, down to the last label alone
RECURSIVE SuffixesFrom_ToLastLabel(_, _)
SuffixesFrom_ToLastLabel(parts, i) ==
  IF i > Len(parts) - 1 THEN <<>>
  ELSE <<JoinFrom(parts, i)>> \o SuffixesFrom_ToLastLabel(parts, i + 1)

RECURSIVE SuffixesFrom(_, _)
SuffixesFrom(parts, i) ==
  IF i > Len(parts) - 2 THEN <<>>
  ELSE <<JoinFrom(parts, i)>> \o SuffixesFrom(parts, i + 1)

extractHosts(host) ==
  IF isIpv4(host) \/ isIpv6(host) THEN <<host>>
  ELSE IF Len(host) <= 2 THEN <<host>>
  ELSE SuffixesFrom(host, 0)

\* createHashesMap: the hosts' full hashes, in insertion order (Object.keys)
RECURSIVE HashesInto(_, _)
HashesInto(result, hosts) ==
  IF hosts = <<>> THEN result
  ELSE LET hash == createHash(Head(hosts)) IN
       HashesInto(IF \E i \in 1..Len(result) : result[i] = hash
                    THEN result ELSE Append(result, hash),
                  Tail(hosts))

createHashesMap(hosts) == HashesInto(<<>>, hosts)

InMap(hashesMap, hash) == \E i \in 1..Len(hashesMap) : hashesMap[i] = hash

\* mutant: the hosts are tried from the least specific one
RECURSIVE checkHostsInSbCache_LeastSpecificFirst(_, _)
checkHostsInSbCache_LeastSpecificFirst(cache, hosts) ==
  IF hosts = <<>> THEN NoEntry
  ELSE IF getValue(cache, createHash(hosts[Len(hosts)])) # NoEntry
         THEN getValue(cache, createHash(hosts[Len(hosts)]))
         ELSE checkHostsInSbCache_LeastSpecificFirst(cache, SubSeq(hosts, 1, Len(hosts) - 1))

\* checkHostsInSbCache: the entry of the first host that has one, or ""
RECURSIVE checkHostsInSbCache(_, _)
checkHostsInSbCache(cache, hosts) ==
  IF hosts = <<>> THEN NoEntry
  ELSE IF getValue(cache, createHash(Head(hosts))) # NoEntry
         THEN getValue(cache, createHash(Head(hosts)))
         ELSE checkHostsInSbCache(cache, Tail(hosts))

\* one record of a response body, "list:ignored:hash"
Line(list, hash) == [list |-> list, hash |-> hash]

\* mutant: only the first record of the body is cached
SavedLines_FirstOnly(cache, lines) ==
  IF lines = <<>> THEN cache
  ELSE saveValue(cache, Head(lines).hash, Head(lines).list)

\* the long-term cache after processSbResponse has gone through the lines
RECURSIVE SavedLines(_, _)
SavedLines(cache, lines) ==
  IF lines = <<>> THEN cache
  ELSE SavedLines(saveValue(cache, Head(lines).hash, Head(lines).list), Tail(lines))

\* the list of the first line whose hash is one of the looked-up hashes, or ""
RECURSIVE FirstMatch(_, _)
FirstMatch(lines, hashesMap) ==
  IF lines = <<>> THEN NoEntry
  ELSE IF Head(lines).list # NoEntry /\ InMap(hashesMap, Head(lines).hash)
         THEN Head(lines).list
         ELSE FirstMatch(Tail(lines), hashesMap)

\* no response was handled
NoBody == [lines |-> <<>>, length |-> 0]

\* mutant: the length of the body is not looked at
Parseable_AnyLength(responseText) == responseText.length # 0

\* a response text is its length and its lines; processSbResponse goes on with
\* a text that is not empty and not longer than 10 * 1024 characters
Parseable(responseText) ==
  ~(responseText.length = 0 \/ responseText.length > 10 * 1024)

\* processSbResponse: [result, cache]; result "" stands for null / undefined
processSbResponse(cache, responseText, hashesMap) ==
  IF ~Parseable(responseText)
    THEN [result |-> NoEntry, cache |-> cache]
    ELSE [result |-> FirstMatch(responseText.lines, hashesMap),
          cache |-> SavedLines(cache, responseText.lines)]

Idle == [busy |-> FALSE]
Request(host, hashesMap, shortHashes) ==
  [busy |-> TRUE, host |-> host, hashesMap |-> hashesMap, shortHashes |-> shortHashes]

\* what a step did: the values passed to the lookup callback and the short-hash
\* lists sent to the backend
SbStep(op, caller, url, status, cb, net) ==
  [op |-> op, caller |-> caller, url |-> url, status |-> status, cb |-> cb, net |-> net]

\* mutant: the suspension still holds when exactly the window has passed
Suspended_Inclusive == suspendedFrom # 0 /\ now - suspendedFrom <= SUSPEND_TTL

\* mutant: the comparison with the window is the wrong way round
Suspended_WrongWay == suspendedFrom # 0 /\ now - suspendedFrom > SUSPEND_TTL

Suspended == suspendedFrom # 0 /\ now - suspendedFrom < SUSPEND_TTL

\* mutant: a status of exactly 500 is handled as an answer
IsServerError_Above500(response) == response.status > 500

IsServerError(response) == response.status >= 500

ShortOf(hashesMap) ==
  [i \in 1..Len(hashesMap) |-> Substring0(hashesMap[i], DOMAIN_HASH_LENGTH)]

\* mutant: prefixes already asked are sent again
NotAsked_Unfiltered(shortHashes) == shortHashes

NotAsked(shortHashes) == SelectSeq(shortHashes, LAMBDA x : x \notin requestsCache)

lookupUrlWithCallback(requestUrl, lookupUrlCallback) ==
  LET host == getHost(requestUrl)
      hosts == extractHosts(host)
      sbList == checkHostsInSbCache(sbCache, hosts)
      hashesMap == createHashesMap(hosts)
      shortHashes == NotAsked(ShortOf(hashesMap))
      Step(cb, net) == SbStep("lookup", lookupUrlCallback, requestUrl, 0, cb, net)
  IN
  IF host = NoHost THEN
    /\ sbLast' = Step(<<>>, <<>>)
    /\ UNCHANGED <<sbCache, requestsCache, suspendedFrom, suspendedBy, pending>>
  ELSE IF sbList # NoEntry THEN
    /\ sbLast' = Step(<<createResponse(sbList)>>, <<>>)
    /\ UNCHANGED <<sbCache, requestsCache, suspendedFrom, suspendedBy, pending>>
  ELSE IF Suspended THEN
    /\ sbLast' = Step(<<>>, <<>>)
    /\ UNCHANGED <<sbCache, requestsCache, suspendedFrom, suspendedBy, pending>>
  ELSE IF shortHashes = <<>> THEN
    /\ sbCache' = saveValue(sbCache, createHash(host), SB_WHITE_LIST)
    /\ sbLast' = Step(<<createResponse(SB_WHITE_LIST)>>, <<>>)
    /\ UNCHANGED <<requestsCache, suspendedFrom, suspendedBy, pending>>
  ELSE
    /\ pending' = [pending EXCEPT ![lookupUrlCallback] =
                     Request(host, hashesMap, shortHashes)]
    /\ sbLast' = Step(<<>>, <<shortHashes>>)
    /\ UNCHANGED <<sbCache, requestsCache, suspendedFrom, suspendedBy>>

suspendSafebrowsing == suspendedFrom' = now

\* mutant: the stored suspension start is left in place
resumeSafebrowsing_Keeps == suspendedFrom' = suspendedFrom

resumeSafebrowsing == suspendedFrom' = 0

\* the success callback given to purify.backend.lookupSafebrowsing
onLookupResponse(caller, response) ==
  LET req == pending[caller]
      parsed == processSbResponse(sbCache, response.responseText, req.hashesMap)
      sbList == IF response.status # 204 /\ parsed.result # NoEntry
                  THEN parsed.result ELSE SB_WHITE_LIST
      cache == IF response.status # 204 THEN parsed.cache ELSE sbCache
      Step(cb) == SbStep("response", caller, Url(req.host), response.status, cb, <<>>)
  IN
  /\ pending' = [pending EXCEPT ![caller] = Idle]
  /\ IF IsServerError(response) THEN
       /\ suspendSafebrowsing
       /\ suspendedBy' = "response"
       /\ sbLast' = Step(<<>>)
       /\ UNCHANGED <<sbCache, requestsCache>>
     ELSE
       /\ resumeSafebrowsing
       /\ suspendedBy' = ""
       /\ requestsCache' = requestsCache \cup
            {req.shortHashes[i] : i \in 1..Len(req.shortHashes)}
       /\ sbCache' = saveValue(cache, createHash(req.host), sbList)
       /\ sbLast' = Step(<<createResponse(sbList)>>)

\* mutant: a failed query marks its prefixes as asked
onLookupError_MarksAsked(caller) ==
  /\ pending' = [pending EXCEPT ![caller] = Idle]
  /\ suspendSafebrowsing
  /\ suspendedBy' = "error"
  /\ sbLast' = SbStep("error", caller, Url(pending[caller].host), 0, <<>>, <<>>)
  /\ requestsCache' = requestsCache \cup
       {pending[caller].shortHashes[i] : i \in 1..Len(pending[caller].shortHashes)}
  /\ UNCHANGED sbCache

\* the error callback given to purify.backend.lookupSafebrowsing
onLookupError(caller) ==
  /\ pending' = [pending EXCEPT ![caller] = Idle]
  /\ suspendSafebrowsing
  /\ suspendedBy' = "error"
  /\ sbLast' = SbStep("error", caller, Url(pending[caller].host), 0, <<>>, <<>>)
  /\ UNCHANGED <<sbCache, requestsCache>>

\* mutant: the host is marked as asked instead of being cached as trusted
addToSafebrowsingTrusted_SessionOnly(url) ==
  /\ requestsCache' = IF getHost(url) = NoHost THEN requestsCache
                      ELSE requestsCache \cup {Substring0(createHash(getHost(url)), DOMAIN_HASH_LENGTH)}
  /\ sbLast' = SbStep("addTrusted", "", url, 0, <<>>, <<>>)
  /\ UNCHANGED <<sbCache, suspendedFrom, suspendedBy, pending>>

addToSafebrowsingTrusted(url) ==
  LET host == getHost(url) IN
  /\ sbCache' = IF host = NoHost THEN sbCache
                ELSE saveValue(sbCache, createHash(host), SB_WHITE_LIST)
  /\ sbLast' = SbStep("addTrusted", "", url, 0, <<>>, <<>>)
  /\ UNCHANGED <<requestsCache, suspendedFrom, suspendedBy, pending>>

----------------------------------------------------------------------------
(* purify.stealthService (lib/stealth.js) *)

\* STEALTH_ACTIONS: one bit per action
HIDE_REFERRER == 1
HIDE_SEARCH_QUERIES == 2
BLOCK_CHROME_CLIENT_DATA == 4
SEND_DO_NOT_TRACK == 8
STRIPPED_TRACKING_URL == 16
FIRST_PARTY_COOKIES == 32
THIRD_PARTY_COOKIES == 64
HeaderActions ==
  {HIDE_REFERRER, HIDE_SEARCH_QUERIES, BLOCK_CHROME_CLIENT_DATA, SEND_DO_NOT_TRACK}

HasBit(actions, bit) == (actions \div bit) % 2 = 1

\* actions |= bit
BitOr(actions, bit) == IF HasBit(actions, bit) THEN actions ELSE actions + bit

\* URLs of the stealth service: scheme, host (a list of labels) and what follows
\* the host's "/" (a list of characters and parameter names)
StUrl(scheme, host, tail) == [scheme |-> scheme, host |-> host, tail |-> tail]
\* an empty or missing URL
NoUrl == StUrl("", <<>>, <<>>)

ShopCom == <<"shop", "com">>
CdnShopCom == <<"cdn", "shop", "com">>
WwwGoogleCom == <<"www", "google", "com">>
AdsNet == <<"ads", "net">>

\* SEARCH_ENGINES: the host starts, after an optional "www.", with one of these
SearchNames == {"google", "yandex", "bing", "yahoo"}
SearchHosts == {<<"ask", "com">>, <<"aol", "com">>, <<"baidu", "com">>, <<"seznam", "cz">>}

isSearchEngine(url) ==
  /\ url # NoUrl
  /\ url.scheme \in {"http", "https"}
  /\ LET h == IF url.host # <<>> /\ Head(url.host) = "www" THEN Tail(url.host) ELSE url.host
     IN \/ Len(h) >= 2 /\ h[1] \in SearchNames
        \/ Len(h) >= 2 /\ SubSeq(h, 1, 2) \in SearchHosts
        \/ Len(h) >= 3 /\ SubSeq(h, 1, 3) = <<"go", "mail", "ru">>

\* the URL without its path: scheme, host and "/"
getHiddenRefHeaderUrl(url) ==
  StUrl(IF url.scheme = "https" THEN "https" ELSE "http", getHost(url), <<>>)

\* purify.utils.url.isThirdPartyRequest: the two URLs' hosts have different
\* registrable domains (here the last two labels)
Domain2(host) == IF Len(host) <= 2 THEN host ELSE SubSeq(host, Len(host) - 1, Len(host))
isThirdPartyRequest(requestUrl, referrer) ==
  Domain2(getHost(requestUrl)) # Domain2(getHost(referrer))

\* mutant: only the stealth switch is read
isStealthModeDisabled_StealthOnly(s) == s.DISABLE_STEALTH_MODE

\* purify.settings as the service reads it: s is the stored value of each property
isStealthModeDisabled(s) == s.DISABLE_STEALTH_MODE \/ s.DISABLE_FILTERING

getStealthSettingValue(s, stealthSettingName) ==
  IF isStealthModeDisabled(s) THEN FALSE ELSE s[stealthSettingName]

\* rules of purify.requestFilter: a whitelist rule may be a document-level one
DocumentWhiteListRules == {"@@doc", "@@stealthdoc"}
isDocumentWhiteList(rule) == rule \in DocumentWhiteListRules

\* what purify.frames and purify.requestFilter answer for the request at hand:
\* stop is shouldStopRequestProcess(tab), mainFrameUrl is getMainFrameUrl(tab),
\* whiteListRule is findWhiteListRule(...), stealthDocumentRule and stealthRule
\* are findStealthWhiteListRule for the referrer and for the request
Env(stop, mainFrameUrl, whiteListRule, stealthDocumentRule, stealthRule) ==
  [stop |-> stop, mainFrameUrl |-> mainFrameUrl, whiteListRule |-> whiteListRule,
   stealthDocumentRule |-> stealthDocumentRule, stealthRule |-> stealthRule]

findStealthWhitelistRule(env) ==
  IF env.stealthDocumentRule # NoRule /\ isDocumentWhiteList(env.stealthDocumentRule)
    THEN env.stealthDocumentRule
  ELSE IF env.stealthRule # NoRule THEN env.stealthRule
  ELSE NoRule

\* purify.utils.browser.findHeaderByName: the position of the header, 0 if none
findHeaderByName(headers, headerName) ==
  IF \E i \in 1..Len(headers) : headers[i].name = headerName
    THEN CHOOSE i \in 1..Len(headers) :
           /\ headers[i].name = headerName
           /\ \A j \in 1..(i - 1) : headers[j].name # headerName
    ELSE 0

\* purify.utils.browser.removeHeader: the headers left
removeHeader(headers, headerName) == SelectSeq(headers, LAMBDA h : h.name # headerName)

REFERRER == "Referer"
X_CLIENT_DATA == "X-Client-Data"
DO_NOT_TRACK == Header("DNT", "1")

\* the value of the work in progress of processRequestHeaders
Work(headers, stealthActions) == [headers |-> headers, stealthActions |-> stealthActions]

\* lines 185-200
HideReferrer(w, requestUrl, s) ==
  LET i == findHeaderByName(w.headers, REFERRER) IN
  IF getStealthSettingValue(s, "HIDE_REFERRER")
       /\ i # 0 /\ isThirdPartyRequest(requestUrl, w.headers[i].value)
    THEN Work([w.headers EXCEPT ![i].value = getHiddenRefHeaderUrl(requestUrl)],
              BitOr(w.stealthActions, HIDE_REFERRER))
    ELSE w

\* mutant: the referrer is not compared with the request URL
HideSearchQueries_AnyParty(w, requestUrl, requestType, s) ==
  LET i == findHeaderByName(w.headers, REFERRER)
      isMainFrame == requestType = DOCUMENT
  IN
  IF getStealthSettingValue(s, "HIDE_SEARCH_QUERIES") /\ isMainFrame
       /\ i # 0 /\ isSearchEngine(w.headers[i].value)
    THEN Work([w.headers EXCEPT ![i].value = getHiddenRefHeaderUrl(requestUrl)],
              BitOr(w.stealthActions, HIDE_SEARCH_QUERIES))
    ELSE w

\* lines 202-223
HideSearchQueries(w, requestUrl, requestType, s) ==
  LET i == findHeaderByName(w.headers, REFERRER)
      isMainFrame == requestType = DOCUMENT
  IN
  IF getStealthSettingValue(s, "HIDE_SEARCH_QUERIES") /\ isMainFrame
       /\ i # 0 /\ isSearchEngine(w.headers[i].value)
       /\ isThirdPartyRequest(requestUrl, w.headers[i].value)
    THEN Work([w.headers EXCEPT ![i].value = getHiddenRefHeaderUrl(requestUrl)],
              BitOr(w.stealthActions, HIDE_SEARCH_QUERIES))
    ELSE w

\* lines 225-239
BlockChromeClientData(w, s) ==
  IF getStealthSettingValue(s, "BLOCK_CHROME_CLIENT_DATA")
       /\ removeHeader(w.headers, X_CLIENT_DATA) # w.headers
    THEN Work(removeHeader(w.headers, X_CLIENT_DATA),
              BitOr(w.stealthActions, BLOCK_CHROME_CLIENT_DATA))
    ELSE w

\* mutant: the header is added but the action is not noted
SendDoNotTrack_Unflagged(w, s) ==
  IF getStealthSettingValue(s, "SEND_DO_NOT_TRACK")
    THEN Work(Append(w.headers, DO_NOT_TRACK), w.stealthActions)
    ELSE w

\* lines 241-249
SendDoNotTrack(w, s) ==
  IF getStealthSettingValue(s, "SEND_DO_NOT_TRACK")
    THEN Work(Append(w.headers, DO_NOT_TRACK), BitOr(w.stealthActions, SEND_DO_NOT_TRACK))
    ELSE w

\* lines 183-249: the headers and the flags after the four mutations
MutateHeaders(requestUrl, requestType, requestHeaders, s) ==
  SendDoNotTrack(
    BlockChromeClientData(
      HideSearchQueries(
        HideReferrer(Work(requestHeaders, 0), requestUrl, s),
        requestUrl, requestType, s),
      s),
    s)

\* a call of the stealth service: what it was given, what its collaborators
\* answered, and what it returned (returned is "true", "false", "null", "rules"
\* or "url"; rules and rewritten hold the value of the last two)
StealthCall(op, requestId, s, env, request, headersIn, headersOut, returned, rules, rewritten) ==
  [op |-> op, id |-> requestId, s |-> s, env |-> env, request |-> request,
   headersIn |-> headersIn, headersOut |-> headersOut, returned |-> returned,
   rules |-> rules, rewritten |-> rewritten]

\* the request a call is about: its URL, referrer and type
Request3(requestUrl, referrerUrl, requestType) ==
  [requestUrl |-> requestUrl, referrerUrl |-> referrerUrl, requestType |-> requestType]

NoEnv == Env(FALSE, NoUrl, NoRule, NoRule, NoRule)
NoRequest == Request3(NoUrl, NoUrl, "")

\* stealth mode and filtering are enabled, nothing else is stored
NoSettings == [DISABLE_STEALTH_MODE |-> FALSE, DISABLE_FILTERING |-> FALSE]

\* the storage and the log are not touched
NoEffect ==
  /\ emitted' = <<>>
  /\ UNCHANGED <<contexts, nextEventId, issuedEventIds>>

processRequestHeaders(requestId, requestHeaders, s, env) ==
  LET context == contexts[requestId]
      stealthWhiteListRule == findStealthWhitelistRule(env)
      w == MutateHeaders(context.requestUrl, context.requestType, requestHeaders, s)
      Return(value, headers) ==
        stLast' = StealthCall("processRequestHeaders", requestId, s, env, NoRequest,
                              requestHeaders, headers,
                              IF value THEN "true" ELSE "false", <<>>, NoUrl)
  IN
  IF isStealthModeDisabled(s) THEN Return(FALSE, requestHeaders) /\ NoEffect
  ELSE IF ~Has(requestId) THEN Return(FALSE, requestHeaders) /\ NoEffect
  ELSE IF env.stop THEN Return(FALSE, requestHeaders) /\ NoEffect
  ELSE IF env.mainFrameUrl = NoUrl THEN Return(FALSE, requestHeaders) /\ NoEffect
  ELSE IF env.whiteListRule # NoRule /\ isDocumentWhiteList(env.whiteListRule)
    THEN Return(FALSE, requestHeaders) /\ NoEffect
  ELSE IF stealthWhiteListRule # NoRule
    THEN /\ Return(FALSE, requestHeaders)
         /\ update(requestId, [requestRule |-> stealthWhiteListRule])
  ELSE /\ Return(w.stealthActions > 0, w.headers)
       /\ IF w.stealthActions > 0
            THEN update(requestId, [stealthActions |-> w.stealthActions])
            ELSE NoEffect


\* a rule made by the service: new UrlFilterRule("$cookie=/.+/" + maxAgeOption)
\* with its stealth actions; maxAge is <<>> when the text has no maxAge option
CookieRule(maxAge, stealthActions) ==
  [cookie |-> "/.+/", maxAge |-> maxAge, stealthActions |-> stealthActions]

generateRemoveRule(maxAgeMinutes, stealthActions) ==
  CookieRule(IF maxAgeMinutes > 0 THEN <<maxAgeMinutes * 60>> ELSE <<>>, stealthActions)

\* mutant: a request without referrer counts as third-party
ThirdPartyCookieRuleDue_NoReferrerToo(requestUrl, referrerUrl, requestType) ==
  /\ referrerUrl = NoUrl \/ isThirdPartyRequest(requestUrl, referrerUrl)
  /\ requestType # DOCUMENT

\* lines 335-341: thirdParty && !isMainFrame
ThirdPartyCookieRuleDue(requestUrl, referrerUrl, requestType) ==
  /\ referrerUrl # NoUrl
  /\ isThirdPartyRequest(requestUrl, referrerUrl)
  /\ requestType # DOCUMENT

\* lines 297-354: the rules of a request that is not whitelisted
CookieRules(requestUrl, referrerUrl, requestType, s) ==
  (IF getStealthSettingValue(s, "SELF_DESTRUCT_FIRST_PARTY_COOKIES")
     THEN <<generateRemoveRule(s.SELF_DESTRUCT_FIRST_PARTY_COOKIES_TIME, FIRST_PARTY_COOKIES)>>
     ELSE <<>>)
  \o
  (IF getStealthSettingValue(s, "SELF_DESTRUCT_THIRD_PARTY_COOKIES")
        /\ ThirdPartyCookieRuleDue(requestUrl, referrerUrl, requestType)
     THEN <<generateRemoveRule(s.SELF_DESTRUCT_THIRD_PARTY_COOKIES_TIME, THIRD_PARTY_COOKIES)>>
     ELSE <<>>)

getCookieRules(requestUrl, referrerUrl, requestType, s, env) ==
  LET Return(value, rules) ==
        stLast' = StealthCall("getCookieRules", "", s, env,
                              Request3(requestUrl, referrerUrl, requestType),
                              <<>>, <<>>, value, rules, NoUrl)
  IN
  /\ NoEffect
  /\ IF isStealthModeDisabled(s) THEN Return("null", <<>>)
     ELSE IF env.whiteListRule # NoRule /\ isDocumentWhiteList(env.whiteListRule)
       THEN Return("false", <<>>)
     ELSE IF findStealthWhitelistRule(env) # NoRule THEN Return("null", <<>>)
     ELSE Return("rules", CookieRules(requestUrl, referrerUrl, requestType, s))

\* the characters of a URL after the host's "/": "?", "&", "#" and parameters
\* written name=value, a parameter standing for its characters
ParamName(c) ==
  CASE c = "utm_source=1" -> "utm_source"
    [] c = "fbclid=1" -> "fbclid"
    [] c = "a=1" -> "a"
    [] OTHER -> ""

\* String.prototype.split(separator): the pieces between the separators
RECURSIVE split(_, _)
split(chars, separator) ==
  IF \A i \in 1..Len(chars) : chars[i] # separator THEN <<chars>>
  ELSE LET i == CHOOSE k \in 1..Len(chars) :
                  /\ chars[k] = separator
                  /\ \A j \in 1..(k - 1) : chars[j] # separator
       IN <<SubSeq(chars, 1, i - 1)>> \o split(SubSeq(chars, i + 1, Len(chars)), separator)

\* Array.prototype.join(separator)
RECURSIVE join(_, _)
join(pieces, separator) ==
  IF Len(pieces) = 0 THEN <<>>
  ELSE IF Len(pieces) = 1 THEN pieces[1]
  ELSE pieces[1] \o <<separator>> \o join(Tail(pieces), separator)

\* [^&#]* from position i: the position after the last character it takes
RECURSIVE ValueEnd(_, _)
ValueEnd(chars, i) ==
  IF i > Len(chars) \/ chars[i] \in {"&", "#"} THEN i ELSE ValueEnd(chars, i + 1)

\* chars.replace(/((^|&)(names)=[^&#]*)/ig, "") from position i on
RECURSIVE WithoutTrackers(_, _, _)
WithoutTrackers(chars, i, names) ==
  IF i > Len(chars) THEN <<>>
  ELSE IF i = 1 /\ ParamName(chars[i]) \in names
    THEN WithoutTrackers(chars, ValueEnd(chars, i + 1), names)
  ELSE IF chars[i] = "&" /\ i < Len(chars) /\ ParamName(chars[i + 1]) \in names
    THEN WithoutTrackers(chars, ValueEnd(chars, i + 2), names)
  ELSE <<chars[i]>> \o WithoutTrackers(chars, i + 1, names)

\* while (urlPieces[1].charAt(0) === "&") urlPieces[1] = urlPieces[1].substr(1)
RECURSIVE DropLeadingAmpersands(_)
DropLeadingAmpersands(chars) ==
  IF chars # <<>> /\ Head(chars) = "&" THEN DropLeadingAmpersands(Tail(chars)) ELSE chars

\* lines 543-568: the URL without the tracking parameters of its first query
StrippedUrl(requestUrl, names) ==
  LET urlPieces == split(requestUrl.tail, "?")
      query == DropLeadingAmpersands(WithoutTrackers(urlPieces[2], 1, names))
  IN IF Len(urlPieces) = 1 THEN requestUrl
     ELSE StUrl(requestUrl.scheme, requestUrl.host,
                IF query # <<>> THEN join([urlPieces EXCEPT ![2] = query], "?")
                ELSE urlPieces[1])

removeTrackersFromUrl(requestId, s, env) ==
  LET context == contexts[requestId]
      stealthWhiteListRule == findStealthWhitelistRule(env)
      result == StrippedUrl(context.requestUrl, s.TRACKING_PARAMETERS)
      Return(value, rewritten) ==
        stLast' = StealthCall("removeTrackersFromUrl", requestId, s, env,
                              IF Has(requestId)
                                THEN Request3(context.requestUrl, context.referrerUrl,
                                              context.requestType)
                                ELSE NoRequest,
                              <<>>, <<>>, value, <<>>, rewritten)
      Log(call) == /\ emitted' = <<call>>
                   /\ UNCHANGED <<contexts, nextEventId, issuedEventIds>>
  IN
  IF ~getStealthSettingValue(s, "STRIP_TRACKING_PARAMETERS")
    THEN Return("null", NoUrl) /\ NoEffect
  ELSE IF ~Has(requestId) \/ context.requestType # DOCUMENT
    THEN Return("null", NoUrl) /\ NoEffect
  ELSE IF env.stop THEN Return("null", NoUrl) /\ NoEffect
  ELSE IF env.mainFrameUrl = NoUrl THEN Return("null", NoUrl) /\ NoEffect
  ELSE IF env.whiteListRule # NoRule /\ isDocumentWhiteList(env.whiteListRule)
    THEN Return("null", NoUrl) /\ NoEffect
  ELSE IF stealthWhiteListRule # NoRule
    THEN /\ Return("null", NoUrl)
         /\ Log(Call("addHttpRequestEvent", context.tab, context.requestUrl,
                     context.requestType, <<stealthWhiteListRule>>, FALSE, 0, ""))
  ELSE IF result # context.requestUrl
    THEN /\ Return("url", result)
         /\ Log(Call("bindStealthActionsToHttpRequestEvent", context.tab, "", "", <<>>,
                     FALSE, context.eventId, ToString(STRIPPED_TRACKING_URL)))
  ELSE Return("null", NoUrl) /\ NoEffect


\* browser.privacy.network: the three WebRTC settings the service controls, each
\* "default" until the extension sets or clears it
PrivacySettings ==
  {"webRTCMultipleRoutesEnabled", "webRTCIPHandlingPolicy", "peerConnectionEnabled"}
DefaultPrivacy == [n \in PrivacySettings |-> "default"]

\* purify.settings as stored: the three properties the WebRTC handling reads
StoredSettings(disableStealth, disableFiltering, blockWebRTC) ==
  [DISABLE_STEALTH_MODE |-> disableStealth,
   DISABLE_FILTERING |-> disableFiltering,
   BLOCK_WEBRTC |-> blockWebRTC]

\* handleBlockWebRTC under stored settings s: browser.privacy is there while the
\* privacy permission is held; every setting is then set when WebRTC is to be
\* blocked and cleared when it is not
handleBlockWebRTC(s, held, current) ==
  IF ~held THEN current
  ELSE [n \in PrivacySettings |->
          IF getStealthSettingValue(s, "BLOCK_WEBRTC") THEN "set" ELSE "cleared"]

\* a promise of the service that has not been settled or whose continuation has
\* not run: kind is "containsForEnabling", "containsForDisabling", "request"
\* (the permission prompt is open) or "then" (the second continuation of
\* handleWebRTCEnabling, with the value it is given); cause is what started the
\* chain, the user's write of a setting or the write made after a refusal
Task(kind, granted, cause) == [kind |-> kind, granted |-> granted, cause |-> cause]

\* mutant: the permission is asked for whatever the setting's value
handlePrivacyPermissions_Enabling(s, cause) == Task("containsForEnabling", FALSE, cause)

\* handlePrivacyPermissions under stored settings s: the chain it starts
handlePrivacyPermissions(s, cause) ==
  IF getStealthSettingValue(s, "BLOCK_WEBRTC")
    THEN Task("containsForEnabling", FALSE, cause)
    ELSE Task("containsForDisabling", FALSE, cause)

\* the onUpdated listener, lines 651-663, on Chromium: the chains started by a
\* write of the named setting under the settings s the write has left
onUpdated(setting, s, cause) ==
  IF setting \in {"BLOCK_WEBRTC", "DISABLE_STEALTH_MODE"}
    THEN <<handlePrivacyPermissions(s, cause)>>
    ELSE <<>>

\* a list without its i-th element
Without(list, i) == SubSeq(list, 1, i - 1) \o SubSeq(list, i + 1, Len(list))

\* what the WebRTC handling did last: the step, the task it ran and whether the
\* privacy permission was held when it ran
WrStep(op, task, held) == [op |-> op, task |-> task, held |-> held]
NoTask == Task("", FALSE, "")

----------------------------------------------------------------------------
(* The storage's operations as steps. Every step notes which operation ran  *)
(* (lastOp); Observe reads whether the context existed when it was called.  *)

\* what was bound to a request, or logged for it: csp, stealth and rules are
\* sets (CSP rules, stealthActions values as logged, request rules); pairs is the
\* list of <<content rule, element>> in order
NoArtifacts == [csp |-> {}, stealth |-> {}, rules |-> {}, pairs |-> <<>>]

Observe(op, requestId, requestType) ==
  lastOp' = [op |-> op, id |-> requestId, existed |-> Has(requestId),
             type |-> requestType]

Init ==
  /\ contexts = [id \in RequestIds |-> NoContext]
  /\ nextEventId = 0
  /\ emitted = <<>>
  /\ lastOp = [op |-> "init", id |-> "", existed |-> FALSE, type |-> ""]
  /\ issuedEventIds = {}
  /\ calls = [id \in RequestIds |-> <<>>]
  /\ netFlushes = [id \in RequestIds |-> 0]
  /\ contentFlushes = [id \in RequestIds |-> 0]
  /\ sbCache = [h \in FullHashes |-> NoEntry]
  /\ requestsCache = {}
  /\ suspendedFrom = 0
  /\ now = T0
  /\ pending = [c \in Callers |-> Idle]
  /\ sbLast = SbStep("init", "", Url(NoHost), 0, <<>>, <<>>)
  /\ suspendedBy = ""
  /\ serverErrorAt = 0
  /\ lastBody = NoBody
  /\ hostIn = NoHost
  /\ hostsOut = <<>>
  /\ headerHeap = [h \in HeaderRefs |-> Header(HeaderName(h), "v1")]
  /\ callerHeaders = <<"h1">>
  /\ bound = NoArtifacts
  /\ flushed = NoArtifacts
  /\ stLast = StealthCall("init", "", NoSettings, NoEnv, NoRequest, <<>>, <<>>, "", <<>>, NoUrl)
  /\ settings = StoredSettings(FALSE, FALSE, FALSE)
  /\ permission = FALSE
  /\ privacy = DefaultPrivacy
  /\ tasks = <<>>
  /\ wrLast = WrStep("init", NoTask, FALSE)
  /\ verdicts = {}

\* the update objects callers pass: rule bindings and stealth actions
LedgerUpdates == {[requestRule |-> "r1"]}
LifecycleUpdates ==
  {[requestRule |-> "r1"], [replaceRules |-> <<"r2">>], [stealthActions |-> 1]}

ContentRulesBound(id) ==
  IF Has(id) /\ contexts[id].contentRules # Undefined
    THEN Len(contexts[id].contentRules[1]) ELSE 0

(* Two requests in flight, histories not kept *)

Record ==
  \E id \in RequestIds, type \in RecordTypes, tab \in Tabs :
    /\ nextEventId < MaxEventId
    /\ record(id, "urlA", "ref", "ref", type, tab)
    /\ Observe("record", id, type)
    /\ UNCHANGED <<sbVars, serverErrorAt, lastBody, hostVars, callerVars, auditVars, stealthVars, webrtcVars, verdictVars>>
    /\ UNCHANGED historyVars

Update ==
  \E id \in RequestIds, upd \in LedgerUpdates :
    /\ update(id, upd)
    /\ Observe("update", id, "")
    /\ UNCHANGED <<sbVars, serverErrorAt, lastBody, hostVars, callerVars, auditVars, stealthVars, webrtcVars, verdictVars>>
    /\ UNCHANGED historyVars

BindContentRule ==
  \E id \in RequestIds :
    /\ ContentRulesBound(id) < MaxRules
    /\ bindContentRule(id, "r1", "e1")
    /\ Observe("bindContentRule", id, "")
    /\ UNCHANGED <<sbVars, serverErrorAt, lastBody, hostVars, callerVars, auditVars, stealthVars, webrtcVars, verdictVars>>
    /\ UNCHANGED historyVars

RequestCompleted ==
  \E id \in RequestIds :
    /\ onRequestCompleted(id)
    /\ Observe("onRequestCompleted", id, "")
    /\ UNCHANGED <<sbVars, serverErrorAt, lastBody, hostVars, callerVars, auditVars, stealthVars, webrtcVars, verdictVars>>
    /\ UNCHANGED historyVars

ContentModificationStarted ==
  \E id \in RequestIds :
    /\ onContentModificationStarted(id)
    /\ Observe("onContentModificationStarted", id, "")
    /\ UNCHANGED <<sbVars, serverErrorAt, lastBody, hostVars, callerVars, auditVars, stealthVars, webrtcVars, verdictVars>>
    /\ UNCHANGED historyVars

ContentModificationFinished ==
  \E id \in RequestIds :
    /\ onContentModificationFinished(id)
    /\ Observe("onContentModificationFinished", id, "")
    /\ UNCHANGED <<sbVars, serverErrorAt, lastBody, hostVars, callerVars, auditVars, stealthVars, webrtcVars, verdictVars>>
    /\ UNCHANGED historyVars

NextLedger ==
  \/ Record
  \/ Update
  \/ BindContentRule
  \/ RequestCompleted
  \/ ContentModificationStarted
  \/ ContentModificationFinished

SpecLedger == Init /\ [][NextLedger]_vars

(* One request, with the history of its lifecycle calls since record *)

TheId == "id1"

Called(op) == calls' = [calls EXCEPT ![TheId] = Append(@, op)]

\* the flush counters after update(TheId, upd); remove(TheId)
Counted(upd) ==
  LET c == updateContext(contexts[TheId], upd) IN
  /\ netFlushes' = [netFlushes EXCEPT ![TheId] =
        IF Has(TheId) /\ NetFlushDue(c) THEN @ + 1 ELSE @]
  /\ contentFlushes' = [contentFlushes EXCEPT ![TheId] =
        IF Has(TheId) /\ ContentFlushDue(c) THEN @ + 1 ELSE @]

LcRecord ==
  \E url \in Urls, type \in RecordTypes, tab \in Tabs :
    /\ nextEventId < MaxEventId
    /\ record(TheId, url, "ref", "ref", type, tab)
    /\ Observe("record", TheId, type)
    /\ UNCHANGED <<sbVars, serverErrorAt, lastBody, hostVars, callerVars, auditVars, stealthVars, webrtcVars, verdictVars>>
    /\ calls' = [calls EXCEPT ![TheId] = <<>>]
    /\ netFlushes' = [netFlushes EXCEPT ![TheId] = 0]
    /\ contentFlushes' = [contentFlushes EXCEPT ![TheId] = 0]

LcUpdate ==
  \E upd \in LifecycleUpdates :
    /\ update(TheId, upd)
    /\ Observe("update", TheId, "")
    /\ UNCHANGED <<sbVars, serverErrorAt, lastBody, hostVars, callerVars, auditVars, stealthVars, webrtcVars, verdictVars>>
    /\ UNCHANGED historyVars

LcRequestCompleted ==
  /\ Len(calls[TheId]) < MaxCalls
  /\ onRequestCompleted(TheId)
  /\ Observe("onRequestCompleted", TheId, "")
  /\ UNCHANGED <<sbVars, serverErrorAt, lastBody, hostVars, callerVars, auditVars, stealthVars, webrtcVars, verdictVars>>
  /\ Called("C")
  /\ Counted([requestState |-> DONE])

LcContentModificationStarted ==
  /\ Len(calls[TheId]) < MaxCalls
  /\ onContentModificationStarted(TheId)
  /\ Observe("onContentModificationStarted", TheId, "")
  /\ UNCHANGED <<sbVars, serverErrorAt, lastBody, hostVars, callerVars, auditVars, stealthVars, webrtcVars, verdictVars>>
  /\ Called("S")
  /\ UNCHANGED <<netFlushes, contentFlushes>>

LcContentModificationFinished ==
  /\ Len(calls[TheId]) < MaxCalls
  /\ onContentModificationFinished(TheId)
  /\ Observe("onContentModificationFinished", TheId, "")
  /\ UNCHANGED <<sbVars, serverErrorAt, lastBody, hostVars, callerVars, auditVars, stealthVars, webrtcVars, verdictVars>>
  /\ Called("F")
  /\ Counted([contentModifyingState |-> DONE])

NextLifecycle ==
  \/ LcRecord
  \/ LcUpdate
  \/ LcRequestCompleted
  \/ LcContentModificationStarted
  \/ LcContentModificationFinished

SpecLifecycle == Init /\ [][NextLifecycle]_vars

(* One request whose rule lists are updated several times before it ends *)

RuleUpdates ==
  {[replaceRules |-> <<r>>] : r \in Rules} \cup {[cspRules |-> <<r>>] : r \in Rules}

CspRulesBound(id) ==
  IF Has(id) /\ contexts[id].cspRules # Undefined
    THEN Len(contexts[id].cspRules[1]) ELSE 0

RlUpdate ==
  \E upd \in RuleUpdates :
    /\ In("cspRules", upd) => CspRulesBound(TheId) < MaxCspRules
    /\ update(TheId, upd)
    /\ Observe("update", TheId, "")
    /\ UNCHANGED <<sbVars, serverErrorAt, lastBody, hostVars, callerVars, auditVars, stealthVars, webrtcVars, verdictVars>>
    /\ UNCHANGED historyVars

NextRules ==
  \/ LcRecord
  \/ RlUpdate
  \/ LcRequestCompleted
  \/ LcContentModificationStarted
  \/ LcContentModificationFinished

SpecRules == Init /\ [][NextRules]_vars

(* One request whose headers are stored while the caller goes on changing   *)
(* its own header array (stealth.js, processRequestHeaders)                 *)

\* the header array the caller passes to update
CallerArray == [i \in 1..Len(callerHeaders) |-> Owned(callerHeaders[i])]

\* a step of the caller: the storage is not called
CallerStep(op) ==
  /\ Observe(op, TheId, "")
  /\ emitted' = <<>>
  /\ UNCHANGED <<contexts, nextEventId, issuedEventIds, historyVars, sbVars,
                 serverErrorAt, lastBody, hostVars, auditVars, stealthVars, webrtcVars, verdictVars>>

HdRecord ==
  \E type \in {DOCUMENT}, tab \in Tabs :
    /\ ~Has(TheId)
    /\ nextEventId < MaxEventId
    /\ record(TheId, "urlA", "ref", "ref", type, tab)
    /\ Observe("record", TheId, type)
    /\ UNCHANGED <<sbVars, serverErrorAt, lastBody, hostVars, callerVars, auditVars, stealthVars, webrtcVars, verdictVars>>
    /\ UNCHANGED historyVars

HdUpdate ==
  \E field \in HeaderFields :
    /\ update(TheId, [f \in {field} |-> CallerArray])
    /\ Observe("update", TheId, "")
    /\ UNCHANGED <<sbVars, serverErrorAt, lastBody, hostVars, callerVars, auditVars, stealthVars, webrtcVars, verdictVars>>
    /\ UNCHANGED historyVars

\* refHeader.value = ..., on the Referer header
SetHeaderValue ==
  \E i \in 1..Len(callerHeaders), value \in HeaderValues :
    /\ headerHeap[callerHeaders[i]].name = "Referer"
    /\ headerHeap[callerHeaders[i]].value # value
    /\ headerHeap' = [headerHeap EXCEPT ![callerHeaders[i]].value = value]
    /\ UNCHANGED callerHeaders
    /\ CallerStep("setHeaderValue")

\* requestHeaders.push(header), with the DNT header
PushHeader ==
  \E ref \in {"h2"} :
    /\ \A i \in 1..Len(callerHeaders) : callerHeaders[i] # ref
    /\ callerHeaders' = Append(callerHeaders, ref)
    /\ UNCHANGED headerHeap
    /\ CallerStep("pushHeader")

\* purify.utils.browser.removeHeader(requestHeaders, name)
RemoveHeader ==
  \E i \in 1..Len(callerHeaders) :
    /\ callerHeaders' = SubSeq(callerHeaders, 1, i - 1)
                          \o SubSeq(callerHeaders, i + 1, Len(callerHeaders))
    /\ UNCHANGED headerHeap
    /\ CallerStep("removeHeader")

NextHeaders ==
  \/ HdRecord
  \/ HdUpdate
  \/ SetHeaderValue
  \/ PushHeader
  \/ RemoveHeader

SpecHeaders == Init /\ [][NextHeaders]_vars

----------------------------------------------------------------------------
(* One request with what was bound to it and what remove has logged for it   *)
(* since its id was opened by a record call that found no context            *)

MaxBinds == 3
Elements == {"e1", "e2"}

\* what a list of filtering-log calls carries
LoggedPairs(callSeq) ==
  LET es == SelectSeq(callSeq, LAMBDA e : e.op = "addCosmeticEvent") IN
  [i \in 1..Len(es) |-> <<es[i].rules[1], es[i].element>>]
LoggedCsp(callSeq) ==
  {callSeq[i].rules[1] :
     i \in {j \in 1..Len(callSeq) :
              callSeq[j].op = "addHttpRequestEvent" /\ callSeq[j].type = CSP}}
LoggedStealth(callSeq) ==
  {callSeq[i].element :
     i \in {j \in 1..Len(callSeq) : callSeq[j].op = "bindStealthActionsToHttpRequestEvent"}}
LoggedRules(callSeq) ==
  {callSeq[i].rules[1] :
     i \in {j \in 1..Len(callSeq) :
              callSeq[j].op = "bindRuleToHttpRequestEvent" /\ callSeq[j].rules # <<>>}}

\* the filtering log has received the calls of callSeq (from remove, or from
\* update, which logs a request rule at once)
Flush(callSeq) ==
  flushed' = [csp |-> flushed.csp \cup LoggedCsp(callSeq),
              stealth |-> flushed.stealth \cup LoggedStealth(callSeq),
              rules |-> flushed.rules \cup LoggedRules(callSeq),
              pairs |-> flushed.pairs \o LoggedPairs(callSeq)]

\* update(TheId, upd) has bound what upd names, if there is a context
Bind(upd) ==
  bound' = IF ~Has(TheId) THEN bound
           ELSE [bound EXCEPT
                   !.csp = IF In("cspRules", upd)
                             THEN @ \cup {upd.cspRules[i] : i \in 1..Len(upd.cspRules)}
                             ELSE @,
                   !.stealth = IF In("stealthActions", upd)
                                 THEN @ \cup {ToString(upd.stealthActions)} ELSE @,
                   !.rules = IF In("requestRule", upd) /\ upd.requestRule # NoRule
                               THEN @ \cup {upd.requestRule} ELSE @]

AuditStep(op, type) ==
  /\ Observe(op, TheId, type)
  /\ UNCHANGED <<historyVars, sbVars, serverErrorAt, lastBody, hostVars, callerVars,
                 stealthVars, webrtcVars, verdictVars>>

\* record for an id that has no context: the id is opened
CtRecord ==
  \E tab \in Tabs :
    /\ ~Has(TheId)
    /\ nextEventId < MaxEventId
    /\ record(TheId, "urlA", "ref", "ref", DOCUMENT, tab)
    /\ AuditStep("record", DOCUMENT)
    /\ bound' = NoArtifacts
    /\ flushed' = NoArtifacts

\* record at any time: for an id that has a context it is a redirect, and what
\* was bound since the id was opened stays bound
RdRecord ==
  \E tab \in Tabs :
    /\ nextEventId < MaxEventId
    /\ record(TheId, "urlA", "ref", "ref", DOCUMENT, tab)
    /\ AuditStep("record", DOCUMENT)
    /\ bound' = IF Has(TheId) THEN bound ELSE NoArtifacts
    /\ flushed' = IF Has(TheId) THEN flushed ELSE NoArtifacts

AuditUpdates ==
  {[cspRules |-> <<"r1">>], [stealthActions |-> HIDE_REFERRER], [requestRule |-> "r2"]}

AuUpdate ==
  \E upd \in AuditUpdates :
    /\ In("cspRules", upd) => CspRulesBound(TheId) < MaxRules
    /\ update(TheId, upd)
    /\ AuditStep("update", "")
    /\ Bind(upd)
    /\ Flush(emitted')

\* bindContentRule(TheId, rule, elementHtml), counted as bound if there is a context
BindPair(rule, elementHtml) ==
  /\ bindContentRule(TheId, rule, elementHtml)
  /\ AuditStep("bindContentRule", "")
  /\ bound' = IF Has(TheId)
                THEN [bound EXCEPT !.pairs = Append(@, <<rule, elementHtml>>)]
                ELSE bound
  /\ UNCHANGED flushed

AuBindContentRule ==
  \E rule \in Rules, elementHtml \in Elements :
    /\ Len(bound.pairs) < MaxBinds
    /\ BindPair(rule, elementHtml)

RdBindContentRule ==
  /\ Len(bound.pairs) < MaxRules
  /\ BindPair("r1", "e1")

AuRequestCompleted ==
  /\ onRequestCompleted(TheId)
  /\ AuditStep("onRequestCompleted", "")
  /\ Flush(emitted')
  /\ UNCHANGED bound

AuContentModificationStarted ==
  /\ onContentModificationStarted(TheId)
  /\ AuditStep("onContentModificationStarted", "")
  /\ UNCHANGED <<bound, flushed>>

AuContentModificationFinished ==
  /\ onContentModificationFinished(TheId)
  /\ AuditStep("onContentModificationFinished", "")
  /\ Flush(emitted')
  /\ UNCHANGED bound

NextContent ==
  \/ CtRecord
  \/ AuBindContentRule
  \/ AuRequestCompleted
  \/ AuContentModificationStarted
  \/ AuContentModificationFinished

SpecContent == Init /\ [][NextContent]_vars

NextRedirect ==
  \/ RdRecord
  \/ AuUpdate
  \/ RdBindContentRule
  \/ AuRequestCompleted
  \/ AuContentModificationStarted
  \/ AuContentModificationFinished

SpecRedirect == Init /\ [][NextRedirect]_vars

----------------------------------------------------------------------------
(* The stealth service's header mutations: one request, whose headers the     *)
(* browser hands over (more than once when the request is sent again)         *)

\* purify.settings with the two global switches and the given feature switches
Switches(disableStealth, disableFiltering, on) ==
  [n \in {"DISABLE_STEALTH_MODE", "DISABLE_FILTERING"} \cup DOMAIN on |->
     IF n = "DISABLE_STEALTH_MODE" THEN disableStealth
     ELSE IF n = "DISABLE_FILTERING" THEN disableFiltering
     ELSE on[n]]

\* the settings the header mutations read
HeaderSettingNames ==
  {"HIDE_REFERRER", "HIDE_SEARCH_QUERIES", "BLOCK_CHROME_CLIENT_DATA", "SEND_DO_NOT_TRACK"}
HeaderSettings == {Switches(FALSE, FALSE, on) : on \in [HeaderSettingNames -> BOOLEAN]}

MainFrame == StUrl("https", ShopCom, <<>>)
\* purify.frames and purify.requestFilter find nothing that stops the service
PassingEnvs == {Env(FALSE, MainFrame, wl, NoRule, NoRule) : wl \in {NoRule}}

PageUrl == StUrl("https", ShopCom, <<"p">>)
RefererValues ==
  {StUrl("https", WwwGoogleCom, <<"s">>), StUrl("http", AdsNet, <<"p">>),
   StUrl("https", CdnShopCom, <<>>)}
HeaderInputs ==
  {ref \o xcd :
     ref \in {<<>>} \cup {<<Header(REFERRER, v)>> : v \in RefererValues},
     xcd \in {<<>>, <<Header(X_CLIENT_DATA, "x")>>}}

\* a step of the stealth service or of the storage, for the one request
StealthStep(op, type) ==
  /\ Observe(op, TheId, type)
  /\ UNCHANGED <<historyVars, sbVars, serverErrorAt, lastBody, hostVars, callerVars,
                 auditVars, webrtcVars, verdictVars>>

HmRecord ==
  \E type \in RecordTypes, tab \in Tabs :
    /\ ~Has(TheId)
    /\ record(TheId, PageUrl, NoUrl, NoUrl, type, tab)
    /\ StealthStep("record", type)
    /\ UNCHANGED stealthVars

HmProcessRequestHeaders ==
  \E s \in HeaderSettings, env \in PassingEnvs, requestHeaders \in HeaderInputs :
    /\ processRequestHeaders(TheId, requestHeaders, s, env)
    /\ StealthStep("processRequestHeaders", "")

NextHeaderMutations ==
  \/ HmRecord
  \/ HmProcessRequestHeaders

SpecHeaderMutations == Init /\ [][NextHeaderMutations]_vars


----------------------------------------------------------------------------
(* The stealth service's early returns: one request and the three functions  *)
(* called for it, with the switches and the whitelist answers varying        *)

\* every feature of the service switched on: the tracking parameters are names,
\* the cookie times are minutes
FeaturesOn(disableStealth, disableFiltering, names, firstPartyTime, thirdPartyTime) ==
  [DISABLE_STEALTH_MODE |-> disableStealth,
   DISABLE_FILTERING |-> disableFiltering,
   HIDE_REFERRER |-> TRUE,
   HIDE_SEARCH_QUERIES |-> TRUE,
   BLOCK_CHROME_CLIENT_DATA |-> TRUE,
   SEND_DO_NOT_TRACK |-> TRUE,
   STRIP_TRACKING_PARAMETERS |-> TRUE,
   TRACKING_PARAMETERS |-> names,
   SELF_DESTRUCT_FIRST_PARTY_COOKIES |-> TRUE,
   SELF_DESTRUCT_FIRST_PARTY_COOKIES_TIME |-> firstPartyTime,
   SELF_DESTRUCT_THIRD_PARTY_COOKIES |-> TRUE,
   SELF_DESTRUCT_THIRD_PARTY_COOKIES_TIME |-> thirdPartyTime]

SwitchSettings ==
  {FeaturesOn(disableStealth, disableFiltering, {"utm_source"}, 1, 1) :
     disableStealth \in BOOLEAN, disableFiltering \in BOOLEAN}

WhitelistEnvs ==
  {Env(FALSE, MainFrame, whiteListRule, stealthDocumentRule, stealthRule) :
     whiteListRule \in {NoRule, "@@doc", "@@wl"},
     stealthDocumentRule \in {NoRule, "@@stealthdoc", "@@stealth"},
     stealthRule \in {NoRule, "@@stealth"}}

TrackedUrl == StUrl("https", ShopCom, <<"?", "utm_source=1">>)
AdsReferrer == StUrl("https", AdsNet, <<>>)

ScRecord ==
  \E type \in RecordTypes, tab \in Tabs :
    /\ ~Has(TheId)
    /\ record(TheId, TrackedUrl, AdsReferrer, NoUrl, type, tab)
    /\ StealthStep("record", type)
    /\ UNCHANGED stealthVars

ScProcessRequestHeaders ==
  \E s \in SwitchSettings, env \in WhitelistEnvs,
     requestHeaders \in {<<Header(REFERRER, AdsReferrer)>>} :
    /\ processRequestHeaders(TheId, requestHeaders, s, env)
    /\ StealthStep("processRequestHeaders", "")

ScGetCookieRules ==
  \E s \in SwitchSettings, env \in WhitelistEnvs, type \in RecordTypes :
    /\ getCookieRules(TrackedUrl, AdsReferrer, type, s, env)
    /\ StealthStep("getCookieRules", type)

ScRemoveTrackersFromUrl ==
  \E s \in SwitchSettings, env \in WhitelistEnvs :
    /\ removeTrackersFromUrl(TheId, s, env)
    /\ StealthStep("removeTrackersFromUrl", "")

NextShortCircuit ==
  \/ ScRecord
  \/ ScProcessRequestHeaders
  \/ ScGetCookieRules
  \/ ScRemoveTrackersFromUrl

SpecShortCircuit == Init /\ [][NextShortCircuit]_vars


----------------------------------------------------------------------------
(* The stealth service's cookie rules, for requests that are not whitelisted *)

MaxMinutes == 2

\* the cookie switches and times, every other feature off
CookieSettings ==
  {[DISABLE_STEALTH_MODE |-> FALSE,
    DISABLE_FILTERING |-> FALSE,
    SELF_DESTRUCT_FIRST_PARTY_COOKIES |-> first,
    SELF_DESTRUCT_FIRST_PARTY_COOKIES_TIME |-> firstTime,
    SELF_DESTRUCT_THIRD_PARTY_COOKIES |-> third,
    SELF_DESTRUCT_THIRD_PARTY_COOKIES_TIME |-> thirdTime] :
     first \in BOOLEAN, third \in BOOLEAN,
     firstTime \in 0..MaxMinutes, thirdTime \in 0..MaxMinutes}

\* no referrer, a referrer of the request's site, a referrer of another site
CookieReferrers == {NoUrl, StUrl("https", CdnShopCom, <<>>), AdsReferrer}

CkGetCookieRules ==
  \E s \in CookieSettings, referrerUrl \in CookieReferrers, type \in RecordTypes,
     env \in PassingEnvs :
    /\ getCookieRules(PageUrl, referrerUrl, type, s, env)
    /\ StealthStep("getCookieRules", type)

NextCookies == CkGetCookieRules

SpecCookies == Init /\ [][NextCookies]_vars


----------------------------------------------------------------------------
(* The stealth service's stripping of tracking parameters: a document request *)
(* for some URL, and the request for the URL the service returns              *)

MaxUrlLen == 4

\* the characters of a URL after the host's "/"
UrlChars == {"?", "&", "#", "utm_source=1", "fbclid=1", "a=1"}

RECURSIVE Tails(_)
Tails(n) ==
  IF n = 0 THEN {<<>>}
  ELSE Tails(n - 1) \cup {Append(t, c) : t \in {u \in Tails(n - 1) : Len(u) = n - 1}, c \in UrlChars}

TrackerUrls == {StUrl("https", ShopCom, tail) : tail \in Tails(MaxUrlLen)}

\* TRACKING_PARAMETERS: the configured names
TrackerSettings ==
  {FeaturesOn(FALSE, FALSE, names, 0, 0) :
     names \in {{"utm_source"}, {"fbclid"}, {"utm_source", "fbclid"}}}

TrRecord ==
  \E requestUrl \in TrackerUrls, tab \in Tabs :
    /\ ~Has(TheId)
    /\ record(TheId, requestUrl, NoUrl, NoUrl, DOCUMENT, tab)
    /\ StealthStep("record", DOCUMENT)
    /\ UNCHANGED stealthVars

TrRemoveTrackersFromUrl ==
  \E s \in TrackerSettings, env \in PassingEnvs :
    /\ removeTrackersFromUrl(TheId, s, env)
    /\ StealthStep("removeTrackersFromUrl", "")

\* the browser is redirected to the URL the service returned: the request is
\* recorded again with that URL
TrRedirect ==
  \E tab \in Tabs :
    /\ Has(TheId)
    /\ stLast.op = "removeTrackersFromUrl"
    /\ stLast.returned = "url"
    /\ stLast.request.requestUrl = contexts[TheId].requestUrl
    /\ nextEventId < MaxEventId
    /\ record(TheId, stLast.rewritten, NoUrl, NoUrl, DOCUMENT, tab)
    /\ StealthStep("redirect", DOCUMENT)
    /\ UNCHANGED stealthVars

NextTrackers ==
  \/ TrRecord
  \/ TrRemoveTrackersFromUrl
  \/ TrRedirect

SpecTrackers == Init /\ [][NextTrackers]_vars


----------------------------------------------------------------------------
(* The WebRTC policy toggle on Chromium: the settings are written by the user *)
(* and by the service, the promises settle one at a time in any order         *)

MaxTasks == 2

\* a step of the WebRTC handling leaves the requests and the other services alone
WebRTCStep(op, task) ==
  /\ wrLast' = WrStep(op, task, permission)
  /\ UNCHANGED <<ledgerVars, historyVars, sbVars, serverErrorAt, lastBody, hostVars,
                 callerVars, auditVars, stealthVars, verdictVars>>

\* purify.settings.setProperty(name, value) from the settings page
WrSetProperty ==
  \E name \in {"BLOCK_WEBRTC", "DISABLE_STEALTH_MODE"}, value \in BOOLEAN :
    LET s == [settings EXCEPT ![name] = value] IN
    /\ Len(tasks) < MaxTasks
    /\ settings' = s
    /\ tasks' = tasks \o onUpdated(name, s, "user")
    /\ UNCHANGED <<permission, privacy>>
    /\ WebRTCStep("setProperty", NoTask)

\* containsPermissions(["privacy"]) settles and its continuation runs
WrContains ==
  \E i \in 1..Len(tasks) :
    LET task == tasks[i] IN
    /\ task.kind \in {"containsForEnabling", "containsForDisabling"}
    /\ IF task.kind = "containsForEnabling"
         THEN \* lines 589-595
              /\ tasks' = [tasks EXCEPT ![i] =
                             IF permission THEN Task("then", TRUE, task.cause)
                             ELSE Task("request", FALSE, task.cause)]
              /\ UNCHANGED <<permission, privacy>>
         ELSE \* lines 609-615
              /\ tasks' = Without(tasks, i)
              /\ privacy' = handleBlockWebRTC(settings, permission, privacy)
              /\ permission' = FALSE
    /\ UNCHANGED settings
    /\ WebRTCStep("contains", task)

\* the permission prompt is answered, or fails
WrRequestSettles ==
  \E i \in 1..Len(tasks), answer \in {"granted", "refused", "error"} :
    LET task == tasks[i] IN
    /\ task.kind = "request"
    /\ tasks' = IF answer = "error" THEN Without(tasks, i)
                ELSE [tasks EXCEPT ![i] = Task("then", answer = "granted", task.cause)]
    /\ permission' = (permission \/ answer = "granted")
    /\ UNCHANGED <<settings, privacy>>
    /\ WebRTCStep(answer, task)

\* lines 596-603: the continuation that is given the grant
WrThen ==
  \E i \in 1..Len(tasks) :
    LET task == tasks[i]
        s == [settings EXCEPT !.BLOCK_WEBRTC = FALSE]
    IN
    /\ task.kind = "then"
    /\ IF task.granted
         THEN /\ privacy' = handleBlockWebRTC(settings, permission, privacy)
              /\ tasks' = Without(tasks, i)
              /\ UNCHANGED settings
         ELSE /\ settings' = s
              /\ tasks' = Without(tasks, i) \o onUpdated("BLOCK_WEBRTC", s, "refusal")
              /\ UNCHANGED privacy
    /\ UNCHANGED permission
    /\ WebRTCStep(IF task.granted THEN "blocked" ELSE "notGranted", task)

NextWebRTC ==
  \/ WrSetProperty
  \/ WrContains
  \/ WrRequestSettles
  \/ WrThen

SpecWebRTC == Init /\ [][NextWebRTC]_vars

----------------------------------------------------------------------------
(* The safebrowsing service's operations as steps *)

\* a record is 80 characters long: list name, ignored field, 64 hex digits
EmptyText == [lines |-> <<>>, length |-> 0]
EvilText == [lines |-> <<Line("malware", createHash(EvilCom))>>, length |-> 80]
MixedText ==
  [lines |-> <<Line("malware", createHash(GoodOrg)), Line("malware", createHash(AEvilCom))>>,
   length |-> 161]
\* bodies of 10 KiB and of one character more, with the record of evil.com
TenKText == [lines |-> EvilText.lines, length |-> 10 * 1024]
LongText == [lines |-> EvilText.lines, length |-> 10 * 1024 + 1]
EvilPlusText ==
  [lines |-> <<Line("malware", createHash(EvilCom)), Line("malware", createHash(AEvilCom))>>,
   length |-> 161]
Responses ==
  {[status |-> 200, responseText |-> t] :
     t \in {EmptyText, EvilText, MixedText, TenKText, LongText, EvilPlusText}}
  \cup {[status |-> st, responseText |-> t] : st \in {204, 500}, t \in {EmptyText, EvilText}}

Lookup ==
  \E c \in Callers, url \in LookupUrls :
    /\ ~pending[c].busy
    /\ lookupUrlWithCallback(url, c)
    /\ UNCHANGED <<now, ledgerVars, historyVars, serverErrorAt, hostVars, callerVars, auditVars, stealthVars, webrtcVars, verdictVars>>
    /\ lastBody' = NoBody

LookupResponse ==
  \E c \in Callers, r \in Responses :
    /\ pending[c].busy
    /\ onLookupResponse(c, r)
    /\ serverErrorAt' = IF r.status >= 500 THEN now ELSE serverErrorAt
    /\ lastBody' = r.responseText
    /\ UNCHANGED <<now, ledgerVars, historyVars, hostVars, callerVars, auditVars, stealthVars, webrtcVars, verdictVars>>

LookupError ==
  \E c \in Callers :
    /\ pending[c].busy
    /\ onLookupError(c)
    /\ UNCHANGED <<now, ledgerVars, historyVars, serverErrorAt, hostVars, callerVars, auditVars, stealthVars, webrtcVars, verdictVars>>
    /\ lastBody' = NoBody

AddTrusted ==
  \E url \in LookupUrls :
    /\ addToSafebrowsingTrusted(url)
    /\ UNCHANGED <<now, ledgerVars, historyVars, serverErrorAt, hostVars, callerVars, auditVars, stealthVars, webrtcVars, verdictVars>>
    /\ lastBody' = NoBody

\* time passes
Tick ==
  /\ now < T0 + MaxTicks * TickMs
  /\ now' = now + TickMs
  /\ sbLast' = SbStep("tick", "", Url(NoHost), 0, <<>>, <<>>)
  /\ UNCHANGED <<sbCache, requestsCache, suspendedFrom, suspendedBy, pending, ledgerVars,
               historyVars, serverErrorAt, hostVars, callerVars, auditVars, stealthVars, webrtcVars, verdictVars>>
  /\ lastBody' = NoBody

\* the LRU cache drops an entry that entries of other hosts have pushed out
Evict ==
  \E h \in FullHashes :
    /\ sbCache[h] # NoEntry
    /\ sbCache' = [sbCache EXCEPT ![h] = NoEntry]
    /\ sbLast' = SbStep("evict", "", Url(NoHost), 0, <<>>, <<>>)
    /\ UNCHANGED <<requestsCache, suspendedFrom, suspendedBy, now, pending, ledgerVars,
                 historyVars, serverErrorAt, hostVars, callerVars, auditVars, stealthVars, webrtcVars, verdictVars>>
    /\ lastBody' = NoBody

NextSb ==
  \/ Lookup
  \/ LookupResponse
  \/ LookupError
  \/ AddTrusted
  \/ Tick
  \/ Evict

SpecSb == Init /\ [][NextSb]_vars

----------------------------------------------------------------------------
(* The safebrowsing service during a backend outage: lookups, responses and  *)
(* failed queries as time passes, with a long-term cache that nobody edits   *)

NextOutage ==
  \/ Lookup
  \/ LookupResponse
  \/ LookupError
  \/ Tick

SpecOutage == Init /\ [][NextOutage]_vars

----------------------------------------------------------------------------
(* extractHosts called on host names of up to MaxLabels labels *)

Labels == {"a", "b", "example", "com", "1", "2", "3", "4", "::1", "::ffff:1"}
HostInputs == UNION {[1..n -> Labels] : n \in 1..MaxLabels}

\* one call per behaviour: the result depends on the argument alone
ExtractHosts ==
  /\ hostsOut = <<>>
  /\ \E host \in HostInputs :
       /\ hostIn' = host
       /\ hostsOut' = extractHosts(host)
  /\ UNCHANGED <<ledgerVars, historyVars, sbVars, serverErrorAt, lastBody, callerVars, auditVars, stealthVars, webrtcVars, verdictVars>>

NextHosts == ExtractHosts

SpecHosts == Init /\ [][NextHosts]_vars

----------------------------------------------------------------------------
(* Properties of the request context storage *)

Present == {id \in RequestIds : Has(id)}
Recorded == nextEventId > 0
IsPrefix(s, t) == Len(s) <= Len(t) /\ SubSeq(t, 1, Len(s)) = s
Emits(op) == \E i \in 1..Len(emitted) : emitted[i].op = op
LifecycleOps ==
  {"onRequestCompleted", "onContentModificationStarted", "onContentModificationFinished"}

StartedFirst == {<<"S", "C", "F">>, <<"S", "F", "C">>}
CompletedFirst == <<"C", "S", "F">>

\* C1 as stated: after onRequestCompleted, onContentModificationStarted and
\* onContentModificationFinished have each been called once on a recorded context,
\* in any order with Started before Finished, each axis has been flushed exactly
\* once, and along the way the context is gone only after both flushes.
C1_AnyOrder ==
  Recorded =>
    /\ calls[TheId] \in StartedFirst \cup {CompletedFirst} =>
          netFlushes[TheId] = 1 /\ contentFlushes[TheId] = 1
    /\ (\E o \in StartedFirst \cup {CompletedFirst} : IsPrefix(calls[TheId], o)) =>
          (~Has(TheId) => netFlushes[TheId] = 1 /\ contentFlushes[TheId] = 1)

\* C1 amended: when Started is called before the other two, each axis is flushed
\* exactly once and the context is deleted only after both flushes, at the last
\* call; when onRequestCompleted is called first the context is deleted by that
\* call, after the network flush alone, and the content axis is never flushed.
C1_StartedFirst ==
  Recorded =>
    /\ calls[TheId] \in StartedFirst =>
          netFlushes[TheId] = 1 /\ contentFlushes[TheId] = 1 /\ ~Has(TheId)
    /\ \A o \in StartedFirst : IsPrefix(calls[TheId], o) =>
          /\ netFlushes[TheId] <= 1 /\ contentFlushes[TheId] <= 1
          /\ ~Has(TheId) => netFlushes[TheId] = 1 /\ contentFlushes[TheId] = 1
          /\ Has(TheId) => calls[TheId] # o
    /\ (calls[TheId] # <<>> /\ IsPrefix(calls[TheId], CompletedFirst)) =>
          netFlushes[TheId] = 1 /\ contentFlushes[TheId] = 0 /\ ~Has(TheId)

C1_Witness ==
  /\ Recorded
  /\ calls[TheId] = <<"S", "C", "F">>
  /\ lastOp.op = "onContentModificationFinished"
  /\ Emits("bindReplaceRulesToHttpRequestEvent")
  /\ ~Has(TheId)

\* the lifecycle calls made so far are ones the storage expects: content
\* modification was started before it finished
StartedBeforeFinished ==
  \A i \in 1..Len(calls[TheId]) :
    calls[TheId][i] = "F" => \E j \in 1..(i - 1) : calls[TheId][j] = "S"

\* C2 as stated: in a sequence of lifecycle calls on one context, no call flushes
\* the artifacts of an axis that was already flushed for that context (a second
\* onRequestCompleted while content modification is PROCESSING emits nothing).
C2_FlushedOnce ==
  (Recorded /\ StartedBeforeFinished) =>
    /\ ~(netFlushes[TheId] >= 2 /\ lastOp.op = "onRequestCompleted" /\ emitted # <<>>)
    /\ ~(contentFlushes[TheId] >= 2 /\ lastOp.op = "onContentModificationFinished"
           /\ emitted # <<>>)

\* C3: a context leaves the table only in onRequestCompleted or
\* onContentModificationFinished for its own id, and only when the other axis read
\* NONE; onRequestCompleted with the content axis PROCESSING, and
\* onContentModificationFinished with the network axis PROCESSING, keep it.
C3_DeletedOnlyWhenBothNone ==
  [][\A id \in RequestIds :
       /\ (Has(id) /\ ~contexts'[id].present) =>
             /\ lastOp'.id = id
             /\ lastOp'.op \in {"onRequestCompleted", "onContentModificationFinished"}
             /\ lastOp'.op = "onRequestCompleted" =>
                   contexts[id].contentModifyingState = NONE
             /\ lastOp'.op = "onContentModificationFinished" =>
                   contexts[id].requestState = NONE
       /\ (Has(id) /\ lastOp'.id = id /\ lastOp'.op = "onRequestCompleted"
             /\ contexts[id].contentModifyingState = PROCESSING) =>
             /\ contexts'[id].present
             /\ contexts'[id].contentModifyingState = PROCESSING
       /\ (Has(id) /\ lastOp'.id = id /\ lastOp'.op = "onContentModificationFinished"
             /\ contexts[id].requestState = PROCESSING) =>
             /\ contexts'[id].present
             /\ contexts'[id].requestState = PROCESSING
     ]_vars

C3_Witness ==
  /\ lastOp.op = "onRequestCompleted"
  /\ lastOp.existed
  /\ Has(lastOp.id)
  /\ contexts[lastOp.id].requestState = NONE
  /\ contexts[lastOp.id].contentModifyingState = PROCESSING

\* C4: record for an id that still has a context (redirect) makes no
\* clearEventsByTabId call, gives the context an eventId greater than the one it
\* replaces, and leaves the table with the same single entry for that id.
C4_RedirectContinuation ==
  [][(lastOp'.op = "record" /\ Has(lastOp'.id)) =>
       /\ \A i \in 1..Len(emitted') : emitted'[i].op # "clearEventsByTabId"
       /\ contexts'[lastOp'.id].present
       /\ contexts'[lastOp'.id].eventId > contexts[lastOp'.id].eventId
       /\ {id \in RequestIds : contexts'[id].present} = Present
       /\ Present = {lastOp'.id}
     ]_vars

C4_Witness ==
  /\ lastOp.op = "record"
  /\ lastOp.existed
  /\ lastOp.type = DOCUMENT
  /\ contexts[TheId].requestUrl = "urlB"
  /\ contexts[TheId].eventId = 2
  /\ Present = {TheId}

\* C5: every record gets an eventId greater than every eventId issued before; live
\* contexts carry pairwise different eventIds, all of them issued ones; and no step
\* other than the record of that id changes a context's eventId or the counter.
C5_EventIdIncreasing ==
  [][/\ lastOp'.op = "record" =>
          /\ \A e \in issuedEventIds : contexts'[lastOp'.id].eventId > e
          /\ issuedEventIds' = issuedEventIds \cup {contexts'[lastOp'.id].eventId}
          /\ nextEventId' > nextEventId
     /\ lastOp'.op # "record" => nextEventId' = nextEventId
     /\ \A id \in RequestIds :
          (Has(id) /\ contexts'[id].present
             /\ ~(lastOp'.op = "record" /\ lastOp'.id = id)) =>
            contexts'[id].eventId = contexts[id].eventId
     /\ \A a, b \in RequestIds :
          (a # b /\ contexts'[a].present /\ contexts'[b].present) =>
            contexts'[a].eventId # contexts'[b].eventId
     /\ \A id \in RequestIds :
          contexts'[id].present => contexts'[id].eventId \in issuedEventIds'
    ]_vars

C5_Witness ==
  /\ lastOp.op = "record"
  /\ lastOp.existed
  /\ Present = RequestIds
  /\ nextEventId = 3

\* C6: a record call makes a clearEventsByTabId call, for its tab, exactly when the
\* request type is DOCUMENT and the id had no context when it was called.
C6_ClearsIffNewDocument ==
  lastOp.op = "record" =>
    /\ Emits("clearEventsByTabId") <=> (lastOp.type = DOCUMENT /\ ~lastOp.existed)
    /\ \A i \in 1..Len(emitted) :
         emitted[i].op = "clearEventsByTabId" =>
           i = 1 /\ emitted[i].tab = contexts[lastOp.id].tab

C6_Witness ==
  /\ lastOp.op = "record"
  /\ lastOp.type = DOCUMENT
  /\ ~lastOp.existed
  /\ Recorded /\ nextEventId > 1
  /\ Emits("clearEventsByTabId")

\* C7: update, bindContentRule and the three lifecycle operations called for an id
\* without context change no context, create none, and call no collaborator.
C7_AbsentIdNoOp ==
  [][(lastOp'.op \in {"update", "bindContentRule"} \cup LifecycleOps
        /\ ~Has(lastOp'.id)) =>
       /\ contexts' = contexts
       /\ emitted' = <<>>
       /\ nextEventId' = nextEventId
       /\ issuedEventIds' = issuedEventIds
     ]_vars

C7_Witness ==
  /\ lastOp.op = "onContentModificationFinished"
  /\ ~lastOp.existed
  /\ Recorded
  /\ Present = RequestIds \ {lastOp.id}

----------------------------------------------------------------------------
(* Properties of the safebrowsing service *)

\* the right-hand dot-suffixes of a host name down to its two-label root, most
\* specific first
SuffixHosts(host) ==
  IF Len(host) <= 2 THEN <<host>>
  ELSE [i \in 1..(Len(host) - 1) |-> SubSeq(host, i, Len(host))]

Entry(host) == sbCache[createHash(host)]
IsListName(entry) == entry # NoEntry /\ entry # SB_WHITE_LIST

\* hs[i] is the first host of hs for which P holds
FirstWith(hs, i, P(_)) == P(hs[i]) /\ \A j \in 1..(i - 1) : ~P(hs[j])

HasEntry(host) == Entry(host) # NoEntry
HasListName(host) == IsListName(Entry(host))

\* a suspension start is recorded and less than 40 minutes old
InWindow == suspendedFrom # 0 /\ now < suspendedFrom + 40 * 60 * 1000

\* C8 as stated: when the long-term cache holds a list name for one of the hosts
\* of extractHosts(host), lookup calls back once with the list name cached for the
\* first (most specific) host that has one, and sends no query.
C8_FirstListName ==
  [][(sbLast'.op = "lookup" /\ sbLast'.url.host # NoHost) =>
       LET hs == SuffixHosts(sbLast'.url.host) IN
       \A i \in 1..Len(hs) :
         FirstWith(hs, i, HasListName) =>
           sbLast'.cb = <<Entry(hs[i])>> /\ sbLast'.net = <<>>
     ]_vars

\* C8 amended: the first (most specific) host that has any entry decides: lookup
\* calls back once, with that entry's list name, or with null when that entry is
\* the whitelist sentinel (also when a less specific host holds a list name), and
\* sends no query, whatever the session cache and the suspension state.
C8_FirstEntry ==
  [][(sbLast'.op = "lookup" /\ sbLast'.url.host # NoHost) =>
       LET hs == SuffixHosts(sbLast'.url.host) IN
       \A i \in 1..Len(hs) :
         FirstWith(hs, i, HasEntry) =>
           /\ sbLast'.cb = <<IF Entry(hs[i]) = SB_WHITE_LIST THEN "null" ELSE Entry(hs[i])>>
           /\ sbLast'.net = <<>>
           /\ pending' = pending
     ]_vars

C8_Witness ==
  /\ sbLast.op = "lookup"
  /\ sbLast.url = Url(AEvilCom)
  /\ sbLast.cb = <<"malware">>
  /\ Entry(AEvilCom) = NoEntry
  /\ Entry(EvilCom) = "malware"
  /\ InWindow
  /\ "C3D4" \notin requestsCache

\* the suspension a response with status >= 500 started is in effect
SuspendedByResponse == InWindow /\ suspendedBy = "response"

C10_ServerErrorSuspends ==
  [][(sbLast'.op = "response" /\ sbLast'.status >= 500) =>
       /\ suspendedFrom' = now
       /\ sbLast'.cb = <<>>
       /\ sbCache' = sbCache
       /\ requestsCache' = requestsCache
       /\ ~pending'[sbLast'.caller].busy
     ]_vars

C10_Witness ==
  /\ sbLast.op = "response"
  /\ sbLast.status = 500
  /\ suspendedFrom = now
  /\ now > T0
  /\ sbLast.cb = <<>>
  /\ Entry(EvilCom) = "malware"
  /\ requestsCache # {}

\* the response the last step handled
LastResponse == [status |-> sbLast.status, responseText |-> lastBody]

\* the value a lookup's callback gets for a response when nothing else is going
\* on: the list of the first record whose hash is the hash of one of the host's
\* suffix hosts, and null for status 204, an empty or oversized body, or no such
\* record
OwnHashes(host) == {createHash(SuffixHosts(host)[i]) : i \in 1..Len(SuffixHosts(host))}
Parsed(r) ==
  r.status # 204 /\ r.responseText.length > 0 /\ r.responseText.length <= 10240
OwnRecords(host, r) ==
  SelectSeq(r.responseText.lines, LAMBDA l : l.hash \in OwnHashes(host))
VerdictAlone(host, r) ==
  IF Parsed(r) /\ OwnRecords(host, r) # <<>> THEN Head(OwnRecords(host, r)).list
  ELSE "null"

\* C11: when a response with status below 500 is handled, the callback gets the
\* verdict that response has for its own lookup alone, whatever other lookups are
\* in flight or were answered, and the other lookups in flight stay as they are;
\* and when the lookup is for evil.com and the parsed body has the record
\* malware:ignored:hash(evil.com), the query had evil.com's prefix, every record of
\* the body is in the long-term cache afterwards, and the callback gets "malware".
C11_ResponseRecords ==
  [][(sbLast'.op = "response" /\ sbLast'.status < 500) =>
       LET c == sbLast'.caller
           r == LastResponse'
       IN
       /\ sbLast'.cb = <<VerdictAlone(pending[c].host, r)>>
       /\ \A d \in Callers \ {c} : pending'[d] = pending[d]
       /\ (pending[c].host = EvilCom /\ Parsed(r)
             /\ \E i \in 1..Len(r.responseText.lines) :
                  r.responseText.lines[i] = Line("malware", createHash(EvilCom))) =>
            /\ \E i \in 1..Len(pending[c].shortHashes) :
                 pending[c].shortHashes[i] = "A1B2"
            /\ \A i \in 1..Len(r.responseText.lines) :
                 sbCache'[r.responseText.lines[i].hash] = r.responseText.lines[i].list
            /\ sbLast'.cb = <<"malware">>
     ]_vars

\* evil.com's lookup was answered with its record and a record of a.evil.com
\* while good.org's lookup was in flight
C11_Witness ==
  /\ sbLast.op = "response"
  /\ sbLast.url = Url(EvilCom)
  /\ sbLast.cb = <<"malware">>
  /\ Entry(EvilCom) = "malware"
  /\ Entry(AEvilCom) = "malware"
  /\ Entry(GoodOrg) = NoEntry
  /\ requestsCache = {"A1B2"}
  /\ lastBody = EvilPlusText
  /\ \E d \in Callers : pending[d].busy /\ pending[d].host = GoodOrg

\* a response with status >= 500 arrived less than 40 minutes ago
ServerErrorWindow == serverErrorAt # 0 /\ now < serverErrorAt + 40 * 60 * 1000

\* C12: the step that handles a response with status below 500 removes the
\* suspension start, adds every short prefix its query sent to the session cache,
\* and only with that done caches the verdict under the host's hash and passes
\* its translation to the callback, once.
C12_ResponseResumes ==
  [][(sbLast'.op = "response" /\ sbLast'.status < 500) =>
       LET req == pending[sbLast'.caller] IN
       /\ suspendedFrom' = 0
       /\ requestsCache' =
            requestsCache \cup {req.shortHashes[i] : i \in 1..Len(req.shortHashes)}
       /\ Len(sbLast'.cb) = 1
       /\ sbCache'[createHash(req.host)] =
            (IF sbLast'.cb[1] = "null" THEN SB_WHITE_LIST ELSE sbLast'.cb[1])
       /\ ~pending'[sbLast'.caller].busy
     ]_vars

\* the first response with status below 500, for a.evil.com, arrives while the
\* suspension a response with status >= 500 started is less than 40 minutes old
C12_Witness ==
  /\ sbLast.op = "response"
  /\ sbLast.status = 200
  /\ sbLast.url = Url(AEvilCom)
  /\ ServerErrorWindow
  /\ suspendedFrom = 0
  /\ requestsCache = {"C3D4", "A1B2"}

\* the short prefixes of a host's suffix hosts
OwnPrefixes(host) == {h.head : h \in OwnHashes(host)}
CacheMiss(host) == \A i \in 1..Len(SuffixHosts(host)) : ~HasEntry(SuffixHosts(host)[i])

\* C13: a lookup that misses the long-term cache while no suspension is in effect
\* sends no query, caches the host's own hash as whitelist and calls back with
\* null when every prefix of the host's suffix hosts is in the session cache;
\* otherwise it sends one query, with each prefix that is not in the session
\* cache once and no other, and neither calls back nor writes a cache.
C13_AskedPrefixes ==
  [][(sbLast'.op = "lookup" /\ sbLast'.url.host # NoHost
        /\ CacheMiss(sbLast'.url.host) /\ ~InWindow) =>
       LET host == sbLast'.url.host
           notAsked == OwnPrefixes(host) \ requestsCache
       IN
       /\ requestsCache' = requestsCache
       /\ notAsked = {} =>
            /\ sbLast'.net = <<>>
            /\ pending' = pending
            /\ sbCache' = [sbCache EXCEPT ![createHash(host)] = SB_WHITE_LIST]
            /\ sbLast'.cb = <<"null">>
       /\ notAsked # {} =>
            /\ Len(sbLast'.net) = 1
            /\ {sbLast'.net[1][i] : i \in 1..Len(sbLast'.net[1])} = notAsked
            /\ Len(sbLast'.net[1]) = Cardinality(notAsked)
            /\ pending'[sbLast'.caller].busy
            /\ pending'[sbLast'.caller].shortHashes = sbLast'.net[1]
            /\ sbLast'.cb = <<>>
            /\ sbCache' = sbCache
     ]_vars

\* a.evil.com is looked up when evil.com's prefix was asked and its own was not
C13_Witness ==
  /\ sbLast.op = "lookup"
  /\ sbLast.url = Url(AEvilCom)
  /\ sbLast.net = <<(<<"C3D4">>)>>
  /\ sbLast.cb = <<>>
  /\ "A1B2" \in requestsCache
  /\ CacheMiss(AEvilCom)

\* C14 as stated: from a response with status >= 500 until 40 minutes have
\* passed, the suspension start stays recorded and no lookup sends a query,
\* whatever responses of lookups that were in flight arrive in between.
C14_SuspensionLasts ==
  ServerErrorWindow =>
    /\ suspendedFrom # 0
    /\ ~(sbLast.op = "lookup" /\ sbLast.net # <<>>)

\* C15: addToSafebrowsingTrusted(url) saves the whitelist sentinel under the hash
\* of the url's host and does nothing else: no query, no callback, session cache
\* and suspension start as they were; and a lookup of a url whose host has the
\* sentinel as its own entry calls back with null and sends no query.
C15_TrustedHost ==
  [][/\ sbLast'.op = "addTrusted" =>
          /\ sbLast'.url.host # NoHost =>
               sbCache' = [sbCache EXCEPT ![createHash(sbLast'.url.host)] = SB_WHITE_LIST]
          /\ sbLast'.url.host = NoHost => sbCache' = sbCache
          /\ sbLast'.net = <<>> /\ sbLast'.cb = <<>>
          /\ requestsCache' = requestsCache
          /\ suspendedFrom' = suspendedFrom
          /\ pending' = pending
     /\ (sbLast'.op = "lookup" /\ sbLast'.url.host # NoHost
           /\ Entry(sbLast'.url.host) = SB_WHITE_LIST) =>
          /\ sbLast'.cb = <<"null">>
          /\ sbLast'.net = <<>>
          /\ pending' = pending
          /\ sbCache' = sbCache
    ]_vars

\* a.evil.com was trusted by hand while evil.com is cached as malware, and is
\* looked up: its prefix was never asked, so no response cached it
C15_Witness ==
  /\ sbLast.op = "lookup"
  /\ sbLast.url = Url(AEvilCom)
  /\ sbLast.cb = <<"null">>
  /\ sbLast.net = <<>>
  /\ Entry(AEvilCom) = SB_WHITE_LIST
  /\ Entry(EvilCom) = "malware"
  /\ "C3D4" \notin requestsCache

\* the verdict of the step that has just called back: on a lookup that hit the
\* long-term cache the first entry among the host's suffix hosts, on a lookup with
\* every prefix asked the whitelist sentinel, on a response the list the handler
\* cached for the host
Translated(verdict, value) ==
  /\ value = "null" <=> verdict = SB_WHITE_LIST
  /\ verdict # SB_WHITE_LIST => value = verdict

\* C16: whenever a step calls back, it calls back once, with null exactly when
\* its verdict is the whitelist sentinel and with the verdict's list name
\* otherwise, on the cache-hit path, the all-asked path and the response path.
C16_CallbackTranslation ==
  [][sbLast'.cb # <<>> =>
       /\ Len(sbLast'.cb) = 1
       /\ sbLast'.op \in {"lookup", "response"}
       /\ sbLast'.op = "lookup" =>
            LET hs == SuffixHosts(sbLast'.url.host) IN
            /\ \A i \in 1..Len(hs) :
                 FirstWith(hs, i, HasEntry) => Translated(Entry(hs[i]), sbLast'.cb[1])
            /\ CacheMiss(sbLast'.url.host) =>
                 /\ sbCache'[createHash(sbLast'.url.host)] = SB_WHITE_LIST
                 /\ Translated(SB_WHITE_LIST, sbLast'.cb[1])
       /\ sbLast'.op = "response" =>
            /\ sbCache'[createHash(sbLast'.url.host)] # NoEntry
            /\ Translated(sbCache'[createHash(sbLast'.url.host)], sbLast'.cb[1])
     ]_vars

\* good.org's lookup is answered with a body that lists it
C16_Witness ==
  /\ sbLast.op = "response"
  /\ sbLast.status = 200
  /\ sbLast.url = Url(GoodOrg)
  /\ lastBody = MixedText
  /\ sbLast.cb = <<"malware">>
  /\ Entry(GoodOrg) = "malware"

C18_ExtractHosts ==
  hostIn # NoHost =>
    LET n == Len(hostIn) IN
    /\ (isIpv4(hostIn) \/ isIpv6(hostIn) \/ n = 1) => hostsOut = <<hostIn>>
    /\ ~(isIpv4(hostIn) \/ isIpv6(hostIn) \/ n = 1) =>
         /\ Len(hostsOut) = n - 1
         /\ \A i \in 1..(n - 1) : hostsOut[i] = SubSeq(hostIn, i, n)
         /\ hostsOut[1] = hostIn
         /\ Len(hostsOut[n - 1]) = 2

C18_Witness ==
  /\ hostIn = <<"a", "b", "example", "com">>
  /\ hostsOut = << <<"a", "b", "example", "com">>, <<"b", "example", "com">>,
                   <<"example", "com">> >>

----------------------------------------------------------------------------
(* Properties of update *)

RuleListFields == {"replaceRules", "cspRules"}
\* the rules a context holds in a field, none when the field was never set
Held(c, field) == IF c[field] = Undefined THEN <<>> ELSE c[field][1]
\* the rules the calls of the last step named, call by call
EmittedRules(op, type) ==
  LET es == SelectSeq(emitted, LAMBDA e : e.op = op /\ e.type = type) IN
  [i \in 1..Len(es) |-> es[i].rules]

CallerOps == {"setHeaderValue", "pushHeader", "removeHeader"}
\* the caller's headers, as name and value, at this moment
CallerHeadersNow ==
  [i \in 1..Len(callerHeaders) |->
     [name |-> headerHeap[callerHeaders[i]].name, value |-> headerHeap[callerHeaders[i]].value]]

\* C20: update stores, in each of the four header fields, the names and values
\* the caller's array has at the call; and when the caller afterwards changes a
\* header's value, adds a header or removes one, what every header field of the
\* context reads as stays what it was.
C20_HeaderSnapshots ==
  [][/\ (lastOp'.op \in CallerOps /\ Has(TheId)) =>
          \A field \in HeaderFields :
            ReadHeaders(contexts'[TheId], headerHeap', field)
              = ReadHeaders(contexts[TheId], headerHeap, field)
     /\ (lastOp'.op = "update" /\ Has(TheId)) =>
          \A field \in HeaderFields :
            \/ contexts'[TheId][field] = contexts[TheId][field]
            \/ ReadHeaders(contexts'[TheId], headerHeap', field) = Some(CallerHeadersNow)
    ]_vars

\* the request headers were stored with two headers; since then the caller has
\* removed one and changed the value of the other
C20_Witness ==
  /\ lastOp.op = "setHeaderValue"
  /\ Has(TheId)
  /\ contexts[TheId].requestHeaders
       = Some(<<Header("Referer", "v1"), Header("DNT", "v1")>>)
  /\ callerHeaders = <<"h1">>
  /\ headerHeap["h1"].value = "v2"


----------------------------------------------------------------------------
(* Properties of the stealth service *)

----------------------------------------------------------------------------
(* Properties of remove *)

\* the calls of the last step on one collaborator operation
CallsOf(op) == SelectSeq(emitted, LAMBDA e : e.op = op)
RECURSIVE SumLen(_)
SumLen(callSeq) == IF callSeq = <<>> THEN 0 ELSE Len(Head(callSeq).rules) + SumLen(Tail(callSeq))
\* how many rules the filtering-log calls of the last step flushed: the request
\* rule, every CSP rule, every replace rule and every content rule
FlushedRuleCount ==
  SumLen(CallsOf("bindRuleToHttpRequestEvent"))
  + SumLen(SelectSeq(CallsOf("addHttpRequestEvent"), LAMBDA e : e.type = CSP))
  + SumLen(CallsOf("bindReplaceRulesToHttpRequestEvent"))
  + Cardinality({CallsOf("addCosmeticEvent")[i].rules :
                   i \in 1..Len(CallsOf("addCosmeticEvent"))})

\* C22 as stated: the step that finalizes a request calls recordRuleHit once for
\* every rule it flushed, each call with one rule, the request's tab and its URL,
\* and with nothing that is not a single rule.
C22_EachFlushedRuleAlone ==
  (lastOp.op \in {"onRequestCompleted", "onContentModificationFinished"}) =>
    /\ \A i \in 1..Len(CallsOf("recordRuleHit")) :
         /\ ~CallsOf("recordRuleHit")[i].isArray
         /\ Len(CallsOf("recordRuleHit")[i].rules) = 1
    /\ Len(CallsOf("recordRuleHit")) = FlushedRuleCount


\* how often x is in the list
Count(list, x) == Cardinality({i \in 1..Len(list) : list[i] = x})
Pairs == Rules \X Elements

\* C23: of the <<rule, element>> pairs bound to a context, none is logged by
\* addCosmeticEvent more often than it was bound; and when the content axis has
\* been finalized, every pair bound so far has been logged exactly as often as it
\* was bound, also a rule's second and third element.
C23_OneEventPerPair ==
  /\ \A p \in Pairs : Count(flushed.pairs, p) <= Count(bound.pairs, p)
  /\ (lastOp.op = "onContentModificationFinished" /\ lastOp.existed) =>
       \A p \in Pairs : Count(flushed.pairs, p) = Count(bound.pairs, p)

\* r1 was bound with e1, r2 with e1, then r1 again with e2, and the content axis
\* is finalized
C23_Witness ==
  /\ lastOp.op = "onContentModificationFinished"
  /\ lastOp.existed
  /\ bound.pairs = << <<"r1", "e1">>, <<"r2", "e1">>, <<"r1", "e2">> >>
  /\ LoggedPairs(emitted) = << <<"r1", "e1">>, <<"r1", "e2">>, <<"r2", "e1">> >>


\* C24: after every record call, for a new id or for an id that has a context
\* (redirect), the id has a context with requestState PROCESSING and
\* contentModifyingState NONE, and the call has emitted exactly one
\* addHttpRequestEvent, with no rule and with that context's eventId.
C24_RecordOpensContext ==
  lastOp.op = "record" =>
    LET c == contexts[lastOp.id]
        observed == SelectSeq(emitted, LAMBDA e : e.op = "addHttpRequestEvent")
    IN /\ c.present
       /\ c.requestState = PROCESSING
       /\ c.contentModifyingState = NONE
       /\ Len(observed) = 1
       /\ observed[1].rules = <<>>
       /\ observed[1].eventId = c.eventId
       /\ observed[1].eventId = nextEventId

\* a redirect of a request that is not the first one recorded
C24_Witness ==
  /\ lastOp.op = "record"
  /\ lastOp.existed
  /\ contexts[lastOp.id].eventId = 3
  /\ contexts[lastOp.id].requestState = PROCESSING
  /\ contexts[lastOp.id].contentModifyingState = NONE
  /\ Len(emitted) = 1
  /\ emitted[1].eventId = 3


\* the stealth service's three functions
StealthOps == {"processRequestHeaders", "getCookieRules", "removeTrackersFromUrl"}

\* which of the four conditions a call met first: 1 stealth mode disabled,
\* 2 filtering disabled, 3 document whitelist rule, 4 stealth whitelist rule,
\* 0 none of them
ShortCircuitBy(call) ==
  IF call.s.DISABLE_STEALTH_MODE THEN 1
  ELSE IF call.s.DISABLE_FILTERING THEN 2
  ELSE IF call.env.whiteListRule \in DocumentWhiteListRules THEN 3
  ELSE IF \/ call.env.stealthDocumentRule \in DocumentWhiteListRules
          \/ call.env.stealthRule # NoRule THEN 4
  ELSE 0

\* the stealth whitelist rule a call found
FoundStealthRule(call) ==
  IF call.env.stealthDocumentRule \in DocumentWhiteListRules
    THEN call.env.stealthDocumentRule
    ELSE call.env.stealthRule

\* a call that returned no rule and no URL and left the headers as they were
ReturnedNothing(call) ==
  /\ call.headersOut = call.headersIn
  /\ call.returned \in {"false", "null"}
  /\ call.rules = <<>>
  /\ call.rewritten = NoUrl

ValuesOf(headers, headerName) ==
  LET hs == SelectSeq(headers, LAMBDA h : h.name = headerName)
  IN [i \in 1..Len(hs) |-> hs[i].value]

Tagged(rules, action) == SelectSeq(rules, LAMBDA r : r.stealthActions = action)

\* the maxAge option of a rule made for a time in minutes
MaxAgeOption(minutes) == IF minutes > 0 THEN <<minutes * 60>> ELSE <<>>

\* C27: a getCookieRules call that is not short-circuited returns a list with one
\* rule tagged FIRST_PARTY_COOKIES exactly when first-party self-destruct is on,
\* followed by one rule tagged THIRD_PARTY_COOKIES exactly when third-party
\* self-destruct is on and the request has a referrer, is of another site than
\* the referrer and is no document request; the list has no other rule, and each
\* rule's maxAge is its time in seconds, or absent for a time of zero.
C27_CookieRules ==
  (lastOp.op = "getCookieRules" /\ ShortCircuitBy(stLast) = 0) =>
    LET s == stLast.s
        request == stLast.request
        firstDue == s.SELF_DESTRUCT_FIRST_PARTY_COOKIES
        thirdDue == /\ s.SELF_DESTRUCT_THIRD_PARTY_COOKIES
                    /\ request.referrerUrl # NoUrl
                    /\ Domain2(request.requestUrl.host) # Domain2(request.referrerUrl.host)
                    /\ request.requestType # DOCUMENT
        expected ==
          (IF firstDue
             THEN <<CookieRule(MaxAgeOption(s.SELF_DESTRUCT_FIRST_PARTY_COOKIES_TIME),
                               FIRST_PARTY_COOKIES)>>
             ELSE <<>>)
          \o (IF thirdDue
                THEN <<CookieRule(MaxAgeOption(s.SELF_DESTRUCT_THIRD_PARTY_COOKIES_TIME),
                                  THIRD_PARTY_COOKIES)>>
                ELSE <<>>)
    IN /\ stLast.returned = "rules"
       /\ Len(Tagged(stLast.rules, FIRST_PARTY_COOKIES)) = (IF firstDue THEN 1 ELSE 0)
       /\ Len(Tagged(stLast.rules, THIRD_PARTY_COOKIES)) = (IF thirdDue THEN 1 ELSE 0)
       /\ request.referrerUrl = NoUrl => Tagged(stLast.rules, THIRD_PARTY_COOKIES) = <<>>
       /\ stLast.rules = expected
       /\ emitted = <<>>

\* both rules, for an image request of another site than its referrer
C27_Witness ==
  /\ lastOp.op = "getCookieRules"
  /\ stLast.request = Request3(PageUrl, AdsReferrer, IMAGE)
  /\ stLast.s.SELF_DESTRUCT_FIRST_PARTY_COOKIES_TIME = 0
  /\ stLast.s.SELF_DESTRUCT_THIRD_PARTY_COOKIES_TIME = 2
  /\ stLast.rules = <<CookieRule(<<>>, FIRST_PARTY_COOKIES),
                      CookieRule(<<120>>, THIRD_PARTY_COOKIES)>>


\* the URL has a parameter of one of the names, wherever it stands
HasTracker(url, names) ==
  \E i \in 1..Len(url.tail) : ParamName(url.tail[i]) \in names

\* C28 as stated: when the URL of a request comes from a rewrite under the same
\* parameter list, stripping it returns no rewrite; and stripping a URL that has
\* no parameter of the list returns no rewrite and logs nothing.
C28_StrippingIdempotent ==
  [][lastOp'.op = "removeTrackersFromUrl" =>
       /\ (/\ lastOp.op = "redirect"
           /\ stLast'.s = stLast.s) =>
             (stLast'.returned = "null" /\ emitted' = <<>>)
       /\ ~HasTracker(stLast'.request.requestUrl, stLast'.s.TRACKING_PARAMETERS) =>
             (stLast'.returned = "null" /\ emitted' = <<>>)
    ]_vars


\* the pending tasks of a kind
TasksOf(list, kind) == SelectSeq(list, LAMBDA t : t.kind = kind)

C30_NothingLost ==
  /\ (lastOp.op = "onRequestCompleted" /\ lastOp.existed) =>
       /\ bound.csp \subseteq flushed.csp
       /\ bound.stealth \subseteq flushed.stealth
       /\ bound.rules \subseteq flushed.rules
  /\ (lastOp.op = "onContentModificationFinished" /\ lastOp.existed) =>
       \A p \in Pairs : Count(bound.pairs, p) <= Count(flushed.pairs, p)


----------------------------------------------------------------------------
(* The header mutations on header lists that already carry a DNT header and  *)
(* on a list the service has mutated before, for a request to a shop or to a *)
(* search engine                                                              *)

MaxHeaders == 3

SearchUrl == StUrl("https", WwwGoogleCom, <<"s">>)
ResendUrls == {PageUrl, SearchUrl}
\* the browser's own Do-Not-Track setting adds the header before the extension
\* sees the list
ResendInputs ==
  {ref \o dnt :
     ref \in {<<>>} \cup {<<Header(REFERRER, v)>> : v \in RefererValues},
     dnt \in {<<>>, <<DO_NOT_TRACK>>}}

RhRecord ==
  \E type \in RecordTypes, tab \in Tabs, url \in ResendUrls :
    /\ ~Has(TheId)
    /\ record(TheId, url, NoUrl, NoUrl, type, tab)
    /\ StealthStep("record", type)
    /\ UNCHANGED stealthVars

RhProcessRequestHeaders ==
  \E s \in HeaderSettings, env \in PassingEnvs, requestHeaders \in ResendInputs :
    /\ processRequestHeaders(TheId, requestHeaders, s, env)
    /\ StealthStep("processRequestHeaders", "")

\* the header list is an array the service changes in place: a second call on
\* the same list gets what the first call left
RhProcessAgain ==
  \E s \in HeaderSettings, env \in PassingEnvs :
    /\ stLast.op = "processRequestHeaders"
    /\ Len(stLast.headersOut) <= MaxHeaders
    /\ processRequestHeaders(TheId, stLast.headersOut, s, env)
    /\ StealthStep("processRequestHeadersAgain", "")

NextResend ==
  \/ RhRecord
  \/ RhProcessRequestHeaders
  \/ RhProcessAgain

SpecResend == Init /\ [][NextResend]_vars

----------------------------------------------------------------------------
(* Safebrowsing verdicts across the two caches: one caller, a backend that   *)
(* answers, and a long-term cache that drops entries                         *)

EvictionCaller == "cb1"
EvictionUrls == {Url(EvilCom), Url(AEvilCom), Url(GoodOrg)}
EvictionResponses ==
  {[status |-> 200, responseText |-> EvilText],
   [status |-> 200, responseText |-> EmptyText],
   [status |-> 204, responseText |-> EmptyText]}

\* the hosts whose own full hash a response lists under a name that is not the
\* whitelist sentinel, when the response is one whose body is processed
ListedBy(response) ==
  IF IsServerError(response) \/ response.status = 204 \/ ~Parseable(response.responseText)
    THEN {}
    ELSE {h \in LookupHosts :
            \E i \in 1..Len(response.responseText.lines) :
              /\ response.responseText.lines[i].hash = createHash(h)
              /\ response.responseText.lines[i].list \notin {NoEntry, SB_WHITE_LIST}}

EvictionStep ==
  UNCHANGED <<now, ledgerVars, historyVars, serverErrorAt, hostVars, callerVars,
              auditVars, stealthVars, webrtcVars>>

EvLookup ==
  \E url \in EvictionUrls :
    /\ ~pending[EvictionCaller].busy
    /\ lookupUrlWithCallback(url, EvictionCaller)
    /\ lastBody' = NoBody
    /\ UNCHANGED verdicts
    /\ EvictionStep

EvLookupResponse ==
  \E r \in EvictionResponses :
    /\ pending[EvictionCaller].busy
    /\ onLookupResponse(EvictionCaller, r)
    /\ lastBody' = r.responseText
    /\ verdicts' = verdicts \cup ListedBy(r)
    /\ EvictionStep

EvAddTrusted ==
  \E url \in EvictionUrls :
    /\ addToSafebrowsingTrusted(url)
    /\ lastBody' = NoBody
    /\ verdicts' = verdicts \ {getHost(url)}
    /\ EvictionStep

\* the LRU cache drops an entry that entries of other hosts have pushed out
EvEvict ==
  \E h \in FullHashes :
    /\ sbCache[h] # NoEntry
    /\ sbCache' = [sbCache EXCEPT ![h] = NoEntry]
    /\ sbLast' = SbStep("evict", "", Url(NoHost), 0, <<>>, <<>>)
    /\ lastBody' = NoBody
    /\ UNCHANGED <<requestsCache, suspendedFrom, suspendedBy, pending, verdicts>>
    /\ EvictionStep

NextEviction ==
  \/ EvLookup
  \/ EvLookupResponse
  \/ EvAddTrusted
  \/ EvEvict

SpecEviction == Init /\ [][NextEviction]_vars

\* the short prefixes a caller's query that still awaits its response carries
InFlight(c) ==
  IF pending[c].busy
    THEN {pending[c].shortHashes[i] : i \in 1..Len(pending[c].shortHashes)}
    ELSE {}

\* C31 as stated: while the query of one lookup of a host still awaits its
\* response, a further lookup of the same host sends none of that query's short
\* prefixes again: two queries in flight for one host share no prefix.
C31_SentOncePerSession ==
  \A c1, c2 \in Callers :
    (c1 # c2 /\ pending[c1].busy /\ pending[c2].busy
       /\ pending[c1].host = pending[c2].host) =>
      InFlight(c1) \cap InFlight(c2) = {}


\* the window has passed since the suspension start that is still recorded
WindowElapsed == suspendedFrom # 0 /\ now >= suspendedFrom + SUSPEND_TTL

\* C32: once 40 minutes have passed since the recorded suspension start, a
\* lookup of a host that misses the long-term cache and has a prefix that is not
\* in the session cache sends a query with the un-asked prefixes, although
\* nothing has cleared the suspension start in between.
C32_SuspensionEnds ==
  [][(sbLast'.op = "lookup" /\ sbLast'.url.host # NoHost
        /\ CacheMiss(sbLast'.url.host) /\ WindowElapsed
        /\ OwnPrefixes(sbLast'.url.host) \ requestsCache # {}) =>
       /\ Len(sbLast'.net) = 1
       /\ {sbLast'.net[1][i] : i \in 1..Len(sbLast'.net[1])} =
            OwnPrefixes(sbLast'.url.host) \ requestsCache
       /\ pending'[sbLast'.caller].busy
       /\ suspendedFrom' = suspendedFrom
     ]_vars

\* a query goes out exactly 40 minutes after the error that started the
\* suspension, the start still being recorded
C32_Witness ==
  /\ sbLast.op = "lookup"
  /\ sbLast.url = Url(EvilCom)
  /\ sbLast.net = <<(<<"A1B2">>)>>
  /\ suspendedFrom = T0
  /\ now = T0 + SUSPEND_TTL
  /\ suspendedBy = "error"


\* C36: the step that handles a failed query (the error callback) sets the
\* suspension start to the current time, passes nothing to the lookup's callback,
\* leaves the long-term cache and the session cache as they were, and the lookup
\* is over: its callback is not kept for a later call.
C36_TransportErrorSuspends ==
  [][sbLast'.op = "error" =>
       /\ suspendedFrom' = now
       /\ sbLast'.cb = <<>>
       /\ sbLast'.net = <<>>
       /\ sbCache' = sbCache
       /\ requestsCache' = requestsCache
       /\ pending[sbLast'.caller].busy
       /\ ~pending'[sbLast'.caller].busy
     ]_vars

\* the query for a.evil.com failed at a later time than the start, with entries
\* in both caches, and a.evil.com's own prefix is still not marked as asked
C36_Witness ==
  /\ sbLast.op = "error"
  /\ sbLast.url = Url(AEvilCom)
  /\ suspendedFrom = now
  /\ now > T0
  /\ suspendedBy = "error"
  /\ Entry(GoodOrg) = SB_WHITE_LIST
  /\ "E5F6" \in requestsCache
  /\ "C3D4" \notin requestsCache
  /\ ~HasEntry(AEvilCom)


\* a call of processRequestHeaders, on a new list or on one it was given before
HeaderCalls == {"processRequestHeaders", "processRequestHeadersAgain"}

C34_AxesBetweenOperations ==
  \A id \in RequestIds :
    Has(id) =>
      /\ contexts[id].requestState \in {PROCESSING, NONE}
      /\ contexts[id].contentModifyingState \in {NONE, PROCESSING}
      /\ \/ contexts[id].requestState = PROCESSING
         \/ contexts[id].contentModifyingState = PROCESSING

\* one request has completed while its content is still being modified, the
\* other one is in both phases
C34_Witness ==
  /\ lastOp.op = "onRequestCompleted"
  /\ lastOp.id = "id1"
  /\ Has("id1") /\ Has("id2")
  /\ contexts["id1"].requestState = NONE
  /\ contexts["id1"].contentModifyingState = PROCESSING
  /\ contexts["id2"].requestState = PROCESSING
  /\ contexts["id2"].contentModifyingState = PROCESSING


\* C35: an operation called with one request id leaves the table's entry of
\* every other id as it was (its fields, rule bindings, states and eventId, and
\* whether it is there at all); the eventId counter is changed by record only,
\* which advances it by one.
C35_OtherRequestsUntouched ==
  [][/\ \A b \in RequestIds : b # lastOp'.id => contexts'[b] = contexts[b]
     /\ nextEventId' # nextEventId => lastOp'.op = "record"
     /\ lastOp'.op = "record" => nextEventId' = nextEventId + 1
    ]_vars

\* the first request was finalized and deleted while the second, with a request
\* rule and a content rule bound and content modification going on, stays
C35_Witness ==
  /\ lastOp.op = "onRequestCompleted"
  /\ lastOp.id = "id1"
  /\ lastOp.existed
  /\ ~Has("id1")
  /\ Has("id2")
  /\ contexts["id2"].requestRule = "r1"
  /\ contexts["id2"].contentRules = Some(<<"r1">>)
  /\ contexts["id2"].contentModifyingState = PROCESSING
  /\ contexts["id2"].eventId = 1
  /\ nextEventId = 2


\* every privacy setting has the given value
AllPrivacy(value) == \A n \in PrivacySettings : privacy[n] = value

C38_LateRemoval ==
  /\ tasks = <<>>
  /\ getStealthSettingValue(settings, "BLOCK_WEBRTC")
  /\ wrLast.op = "contains"
  /\ wrLast.task.kind = "containsForDisabling"
  /\ wrLast.held
  /\ ~permission


\* C39 as stated: a lookup of a host whose own full hash the backend has listed
\* under a name other than the whitelist sentinel, and that has not been trusted
\* since, does not call back with null, neither at once nor when its response
\* arrives, also after the long-term cache has dropped the host's entry.
C39_VerdictStable ==
  (sbLast.op \in {"lookup", "response"} /\ sbLast.url.host \in verdicts) =>
    sbLast.cb # <<"null">>

====
